---- MODULE Spec2Model ----
(***************************************************************************)
(* Model of package concurrentlimit (evanj/concurrentlimit): the Limiter   *)
(* interface, its two constructors New and NoLimit, and the mutex-guarded  *)
(* counter syncLimiter with its methods Start and end.                     *)
(*                                                                         *)
(* Every goroutine that uses the Limiter is a worker.  A method is split   *)
(* into one action per statement, so that the interleavings the mutex      *)
(* allows (and the ones it forbids) are the ones the model has.            *)
(***************************************************************************)
EXTENDS Integers, FiniteSets, Sequences, TLC

\* Bounds of the model (not program constants).
MaxLimit == 2      \* New is called with limits up to MaxLimit
MaxCalls == 2      \* calls of one release function (2 = a double release)

\* One worker more than the largest capacity, as TestLimiterRace has.
NumWorkers == MaxLimit + 1
Workers == 1..NumWorkers

\* The arguments New is called with: 0 and -1 are the rejected ones.
Limits == (0 - 1)..MaxLimit

VARIABLES
    limiter,   \* dynamic value of the Limiter interface: "nil", "syncLimiter", "none"
    max,       \* syncLimiter.max
    current,   \* syncLimiter.current
    mu,        \* syncLimiter.mu: TRUE when locked
    process,   \* "running", or "crashed" after an unrecovered panic
    pc,        \* pc[w]: the statement worker w is at
    next,      \* next[w]: Start's local variable next
    ret,       \* ret[w]: the pair (end, err) the worker's last Start returned
    retry,     \* retry[w]: w's Start call repeats a call that was rejected
    calls,     \* calls[w]: calls of the release function of w's last Start
    ctor,      \* the constructor call that set the program up, with its arguments
    srv,       \* what the composite constructor returned and did to the server
    sem,       \* connections the limited listener has accepted and not seen closed
    resp,      \* resp[w]: the response worker w's request got
    outcome,   \* outcome[w]: how the wrapped handler of w's request went
    second,    \* another Limiter of the same process: its max and current
    via,       \* via[w]: how w's request reached the sleep server: "http", "grpc"
    logger,    \* the sleep server's concurrentMaxLogger: its mu, max and current
    client     \* the load client: its channels, main's locals, the goroutines' locals

\* The state of the servers around the Limiter; callers that use the
\* Limiter directly leave it alone.
wrapVars == <<ctor, second, via, logger, client, srv, sem, resp, outcome>>

vars == <<wrapVars, limiter, max, current, mu, process, pc, next, ret, retry, calls>>

\* var ErrLimited = errors.New("exceeded limit of concurrent operations")
ErrLimited == "exceeded limit of concurrent operations"

NoResult == [end |-> "unset", err |-> "unset"]

\* func NoLimit() Limiter { return nil }: the nil interface value.
NoLimit == [limiter |-> "nil", max |-> 0, current |-> 0, mu |-> FALSE, panic |-> FALSE]

\* Mutant of New: the check is limit < 0, as the doc comment words it.
NewAllowsZero(limit) ==
    IF limit < 0
    THEN [limiter |-> "none", max |-> 0, current |-> 0, mu |-> FALSE, panic |-> TRUE]
    ELSE [limiter |-> "syncLimiter", max |-> limit, current |-> 0, mu |-> FALSE,
          panic |-> FALSE]

\* func New(limit int) Limiter: panics for limit <= 0, else
\* &syncLimiter{sync.Mutex{}, limit, 0}.
New(limit) ==
    IF limit <= 0
    THEN [limiter |-> "none", max |-> 0, current |-> 0, mu |-> FALSE, panic |-> TRUE]
    ELSE [limiter |-> "syncLimiter", max |-> limit, current |-> 0, mu |-> FALSE,
          panic |-> FALSE]

Constructed == {NoLimit} \cup {New(limit) : limit \in Limits}

\* A constructor call: fn is the function, limit its limit / requestLimit;
\* the other arguments are those of the composite constructors.
Call(fn, limit, connectionLimit, listenOK, custom) ==
    [fn |-> fn, limit |-> limit, connectionLimit |-> connectionLimit,
     listenOK |-> listenOK, custom |-> custom]

\* The server's handler is the one Handler(limiter, handler) returns: set
\* by ListenAndServe or ListenAndServeTLS, or by a program that calls
\* Handler itself.
WrappedByHandler == ctor.fn \in {"ListenAndServe", "ListenAndServeTLS", "Handler"}

\* The server's calls go through UnaryInterceptor(limiter, next): set by
\* NewServerWithInterceptors, or by a program that calls UnaryInterceptor.
WrappedByInterceptor == ctor.fn \in {"NewServerWithInterceptors", "UnaryInterceptor"}

\* The calls of programs that use a Limiter directly.
DirectCalls ==
    {Call("NoLimit", 0, 0, TRUE, FALSE)}
        \cup {Call("New", limit, 0, TRUE, FALSE) : limit \in Limits}

NoServer == [err |-> "nil", listening |-> FALSE, gate |-> 0, wrapped |-> FALSE]
NoResp == [status |-> 0, body |-> ""]

\* The state right after the Limiter l was constructed.
\* No other Limiter has been constructed.
NoSecond == [limiter |-> "none", max |-> 0, current |-> 0, last |-> "none"]

\* concurrentMaxLogger{}: the zero value.
NoLogger == [mu |-> FALSE, max |-> 0, current |-> 0]

\* No load client runs.
NoClient ==
    [concurrent |-> 0, main |-> "none", done |-> "open", totalRequestsChan |-> "open",
     i |-> 0, totalRequests |-> 0, mainErr |-> "unset",
     connected |-> [w \in Workers |-> FALSE],
     requestCount |-> [w \in Workers |-> 0],
     err |-> [w \in Workers |-> "unset"],
     sent |-> [w \in Workers |-> 0]]

InitLimiter(l) ==
    /\ limiter = l.limiter
    /\ max = l.max
    /\ current = l.current
    /\ mu = l.mu
    /\ process = IF l.panic THEN "crashed" ELSE "running"
    /\ pc = [w \in Workers |-> "idle"]
    /\ next = [w \in Workers |-> 0]
    /\ ret = [w \in Workers |-> NoResult]
    /\ retry = [w \in Workers |-> FALSE]
    /\ calls = [w \in Workers |-> 0]
    /\ sem = 0
    /\ resp = [w \in Workers |-> NoResp]
    /\ outcome = [w \in Workers |-> "none"]
    /\ second = NoSecond
    /\ via = [w \in Workers |-> "none"]
    /\ logger = NoLogger
    /\ client = NoClient

Init ==
    \E c \in DirectCalls :
        /\ ctor = c
        /\ srv = NoServer
        /\ InitLimiter(IF c.fn = "NoLimit" THEN NoLimit ELSE New(c.limit))

----------------------------------------------------------------------------
\* sync.Mutex

\* Mutant of Lock: takes the mutex without waiting for it.
LockNoWait == mu' = TRUE

\* s.mu.Lock(): waits until the mutex is free, then takes it.
Lock ==
    /\ mu = FALSE
    /\ mu' = TRUE

\* s.mu.Unlock()
Unlock == mu' = FALSE

----------------------------------------------------------------------------
\* limiter.Start()

\* Where a worker calls Start from: a direct caller when it has no call
\* open, a server's wrapper once per request, when the request arrives.
StartFrom ==
    IF ctor.fn \in {"New", "NoLimit"}
    THEN {"idle", "rejected", "released"}
    ELSE {"conn"}

\* The call itself: dynamic dispatch on the interface value.  On the nil
\* interface NoLimit returns, the call is a nil dereference and panics.
StartCall(w) ==
    /\ process = "running"
    /\ limiter \in {"nil", "syncLimiter"}
    /\ pc[w] \in StartFrom
    /\ retry' = [retry EXCEPT ![w] = (pc[w] = "rejected")]
    /\ calls' = [calls EXCEPT ![w] = 0]
    /\ ret' = [ret EXCEPT ![w] = NoResult]
    /\ pc' = [pc EXCEPT ![w] = IF limiter = "nil" THEN "panic" ELSE "start_lock"]
    /\ UNCHANGED <<wrapVars, limiter, max, current, mu, process, next>>

\* s.mu.Lock(); defer s.mu.Unlock()
StartLock(w) ==
    /\ process = "running"
    /\ pc[w] = "start_lock"
    /\ Lock
    /\ pc' = [pc EXCEPT ![w] = "start_next"]
    /\ UNCHANGED <<wrapVars, limiter, max, current, process, next, ret, retry, calls>>

\* next := s.current + 1
StartNext(w) ==
    /\ process = "running"
    /\ pc[w] = "start_next"
    /\ next' = [next EXCEPT ![w] = current + 1]
    /\ pc' = [pc EXCEPT ![w] = "start_check"]
    /\ UNCHANGED <<wrapVars, limiter, max, current, mu, process, ret, retry, calls>>

\* Mutant of StartCheck: a caller that was rejected before is let in.
StartCheckFavoursRetry(w) ==
    /\ process = "running"
    /\ pc[w] = "start_check"
    /\ IF next[w] > max /\ ~retry[w]
       THEN /\ ret' = [ret EXCEPT ![w] = [end |-> "nil", err |-> ErrLimited]]
            /\ pc' = [pc EXCEPT ![w] = "start_unlock"]
       ELSE /\ ret' = ret
            /\ pc' = [pc EXCEPT ![w] = "start_write"]
    /\ current' = current
    /\ UNCHANGED <<wrapVars, limiter, max, mu, process, next, retry, calls>>

\* Mutant of StartCheck: compares with max + 1 (admits one too many).
StartCheckOffByOne(w) ==
    /\ process = "running"
    /\ pc[w] = "start_check"
    /\ IF next[w] > max + 1
       THEN /\ ret' = [ret EXCEPT ![w] = [end |-> "nil", err |-> ErrLimited]]
            /\ pc' = [pc EXCEPT ![w] = "start_unlock"]
       ELSE /\ ret' = ret
            /\ pc' = [pc EXCEPT ![w] = "start_write"]
    /\ current' = current
    /\ UNCHANGED <<wrapVars, limiter, max, mu, process, next, retry, calls>>

\* Mutant of StartCheck: compares with >= (rejects one too early).
StartCheckEarly(w) ==
    /\ process = "running"
    /\ pc[w] = "start_check"
    /\ IF next[w] >= max
       THEN /\ ret' = [ret EXCEPT ![w] = [end |-> "nil", err |-> ErrLimited]]
            /\ pc' = [pc EXCEPT ![w] = "start_unlock"]
       ELSE /\ ret' = ret
            /\ pc' = [pc EXCEPT ![w] = "start_write"]
    /\ current' = current
    /\ UNCHANGED <<wrapVars, limiter, max, mu, process, next, retry, calls>>

\* Mutant of StartCheck: s.current = next is done before the comparison.
StartCheckWritesFirst(w) ==
    /\ process = "running"
    /\ pc[w] = "start_check"
    /\ IF next[w] > max
       THEN /\ ret' = [ret EXCEPT ![w] = [end |-> "nil", err |-> ErrLimited]]
            /\ pc' = [pc EXCEPT ![w] = "start_unlock"]
       ELSE /\ ret' = ret
            /\ pc' = [pc EXCEPT ![w] = "start_write"]
    /\ current' = next[w]
    /\ UNCHANGED <<wrapVars, limiter, max, mu, process, next, retry, calls>>

\* Mutant of StartCheck: at capacity the call waits for a free slot
\* instead of returning ErrLimited.
StartCheckWaits(w) ==
    /\ process = "running"
    /\ pc[w] = "start_check"
    /\ next[w] <= max
    /\ ret' = ret
    /\ pc' = [pc EXCEPT ![w] = "start_write"]
    /\ current' = current
    /\ UNCHANGED <<wrapVars, limiter, max, mu, process, next, retry, calls>>

\* Mutant of StartCheck: the rejection is a freshly made error value.
StartCheckOtherError(w) ==
    /\ process = "running"
    /\ pc[w] = "start_check"
    /\ IF next[w] > max
       THEN /\ ret' = [ret EXCEPT ![w] = [end |-> "nil", err |-> "limit exceeded"]]
            /\ pc' = [pc EXCEPT ![w] = "start_unlock"]
       ELSE /\ ret' = ret
            /\ pc' = [pc EXCEPT ![w] = "start_write"]
    /\ current' = current
    /\ UNCHANGED <<wrapVars, limiter, max, mu, process, next, retry, calls>>

\* if next > s.max { return nil, ErrLimited }
StartCheck(w) ==
    /\ process = "running"
    /\ pc[w] = "start_check"
    /\ IF next[w] > max
       THEN /\ ret' = [ret EXCEPT ![w] = [end |-> "nil", err |-> ErrLimited]]
            /\ pc' = [pc EXCEPT ![w] = "start_unlock"]
       ELSE /\ ret' = ret
            /\ pc' = [pc EXCEPT ![w] = "start_write"]
    /\ current' = current
    /\ UNCHANGED <<wrapVars, limiter, max, mu, process, next, retry, calls>>

\* s.current = next; return s.end, nil
StartWrite(w) ==
    /\ process = "running"
    /\ pc[w] = "start_write"
    /\ current' = next[w]
    /\ ret' = [ret EXCEPT ![w] = [end |-> "s.end", err |-> "nil"]]
    /\ pc' = [pc EXCEPT ![w] = "start_unlock"]
    /\ UNCHANGED <<wrapVars, limiter, max, mu, process, next, retry, calls>>

\* the deferred s.mu.Unlock(), and the return to the caller
StartUnlock(w) ==
    /\ process = "running"
    /\ pc[w] = "start_unlock"
    /\ Unlock
    /\ pc' = [pc EXCEPT ![w] = IF ret[w].err = "nil" THEN "admitted" ELSE "rejected"]
    /\ next' = [next EXCEPT ![w] = 0]    \* the local goes out of scope
    /\ UNCHANGED <<wrapVars, limiter, max, current, process, ret, retry, calls>>

----------------------------------------------------------------------------
\* the release function: s.end

\* The caller calls the release function its Start returned, once.
EndCall(w) ==
    /\ process = "running"
    /\ pc[w] = "admitted"
    /\ calls' = [calls EXCEPT ![w] = @ + 1]
    /\ pc' = [pc EXCEPT ![w] = "end_lock"]
    /\ UNCHANGED <<wrapVars, limiter, max, current, mu, process, next, ret, retry>>

\* A caller bug: the same release function is called once more.
EndCallAgain(w) ==
    /\ process = "running"
    /\ pc[w] = "released"
    /\ calls[w] < MaxCalls
    /\ calls' = [calls EXCEPT ![w] = @ + 1]
    /\ pc' = [pc EXCEPT ![w] = "end_lock"]
    /\ UNCHANGED <<wrapVars, limiter, max, current, mu, process, next, ret, retry>>

\* s.mu.Lock()
EndLock(w) ==
    /\ process = "running"
    /\ pc[w] = "end_lock"
    /\ Lock
    /\ pc' = [pc EXCEPT ![w] = "end_dec"]
    /\ UNCHANGED <<wrapVars, limiter, max, current, process, next, ret, retry, calls>>

\* Mutant of EndDec: the decrement is missing.
EndDecNone(w) ==
    /\ process = "running"
    /\ pc[w] = "end_dec"
    /\ current' = current
    /\ pc' = [pc EXCEPT ![w] = "end_check"]
    /\ UNCHANGED <<wrapVars, limiter, max, mu, process, next, ret, retry, calls>>

\* s.current--
EndDec(w) ==
    /\ process = "running"
    /\ pc[w] = "end_dec"
    /\ current' = current - 1
    /\ pc' = [pc EXCEPT ![w] = "end_check"]
    /\ UNCHANGED <<wrapVars, limiter, max, mu, process, next, ret, retry, calls>>

\* Mutant of EndCheck: the underflow check is missing.
EndCheckNoPanic(w) ==
    /\ process = "running"
    /\ pc[w] = "end_check"
    /\ pc' = [pc EXCEPT ![w] = "end_unlock"]
    /\ UNCHANGED <<wrapVars, limiter, max, current, mu, process, next, ret, retry, calls>>

\* Mutant of EndCheck: Unlock is deferred, so the panic leaves the mutex free.
EndCheckUnlocksOnPanic(w) ==
    /\ process = "running"
    /\ pc[w] = "end_check"
    /\ pc' = [pc EXCEPT ![w] = IF current < 0 THEN "panic" ELSE "end_unlock"]
    /\ mu' = IF current < 0 THEN FALSE ELSE mu
    /\ UNCHANGED <<wrapVars, limiter, max, current, process, next, ret, retry, calls>>

\* Mutant of EndCheck: the check is <= 0, so the last release panics.
EndCheckOffByOne(w) ==
    /\ process = "running"
    /\ pc[w] = "end_check"
    /\ pc' = [pc EXCEPT ![w] = IF current <= 0 THEN "panic" ELSE "end_unlock"]
    /\ UNCHANGED <<wrapVars, limiter, max, current, mu, process, next, ret, retry, calls>>

\* if s.current < 0 { panic("bug: mismatched calls to start/end") }
\* The panic leaves the function with the mutex still locked (Unlock is
\* not deferred).
EndCheck(w) ==
    /\ process = "running"
    /\ pc[w] = "end_check"
    /\ pc' = [pc EXCEPT ![w] = IF current < 0 THEN "panic" ELSE "end_unlock"]
    /\ UNCHANGED <<wrapVars, limiter, max, current, mu, process, next, ret, retry, calls>>

\* s.mu.Unlock(), and the return to the caller
EndUnlock(w) ==
    /\ process = "running"
    /\ pc[w] = "end_unlock"
    /\ Unlock
    /\ pc' = [pc EXCEPT ![w] = "released"]
    /\ UNCHANGED <<wrapVars, limiter, max, current, process, next, ret, retry, calls>>

----------------------------------------------------------------------------
\* A panic unwinds the goroutine.  Nothing in this package recovers it: in
\* a plain goroutine (the tests) the runtime ends the process, under a host
\* that recovers (net/http around a handler) only the goroutine ends.

Crash(w) ==
    /\ process = "running"
    /\ pc[w] = "panic"
    /\ process' = "crashed"
    /\ UNCHANGED <<wrapVars, limiter, max, current, mu, pc, next, ret, retry, calls>>

Recover(w) ==
    /\ process = "running"
    /\ pc[w] = "panic"
    /\ pc' = [pc EXCEPT ![w] = "recovered"]
    /\ UNCHANGED <<wrapVars, limiter, max, current, mu, process, next, ret, retry, calls>>

----------------------------------------------------------------------------

StartStep(w) ==
    \/ StartLock(w)
    \/ StartNext(w)
    \/ StartCheck(w)
    \/ StartWrite(w)
    \/ StartUnlock(w)

EndStep(w) ==
    \/ EndLock(w)
    \/ EndDec(w)
    \/ EndCheck(w)
    \/ EndUnlock(w)

\* Callers that keep the contract: every release function is called once.
Next ==
    \E w \in Workers :
        \/ StartCall(w)
        \/ StartStep(w)
        \/ EndCall(w)
        \/ EndStep(w)
        \/ Crash(w)
        \/ Recover(w)

Spec == Init /\ [][Next]_vars

\* Callers that may also call a release function again.
NextMisuse ==
    \E w \in Workers :
        \/ StartCall(w)
        \/ StartStep(w)
        \/ EndCall(w)
        \/ EndCallAgain(w)
        \/ EndStep(w)
        \/ Crash(w)
        \/ Recover(w)

SpecMisuse == Init /\ [][NextMisuse]_vars

----------------------------------------------------------------------------
\* The HTTP server: ListenAndServe, limitListenerForServer, Handler.
\* A worker is one client connection that carries one request.

StatusOK == 200
StatusTooManyRequests == 429
StatusInternalServerError == 500

NoLimiter == [limiter |-> "none", max |-> 0, current |-> 0, mu |-> FALSE, panic |-> FALSE]

Refused(err) ==
    [err |-> err, listening |-> FALSE, gate |-> 0, wrapped |-> FALSE,
     limiter |-> NoLimiter]

\* Mutant of limitListenerForServer: the connectionLimit check is missing.
limitListenerForServerNoConnCheck(requestLimit, connectionLimit, listenOK) ==
    IF requestLimit <= 0
    THEN Refused("requestLimit must be > 0")
    ELSE IF ~listenOK
    THEN Refused("listen")
    ELSE [err |-> "nil", listening |-> TRUE, gate |-> connectionLimit,
          wrapped |-> TRUE, limiter |-> New(requestLimit)]

\* func limitListenerForServer(srv, requestLimit, connectionLimit): the two
\* checks, net.Listen (which the system may refuse: listenOK),
\* netutil.LimitListener(unlimitedListener, connectionLimit), New(requestLimit)
\* and srv.Handler = Handler(limiter, srv.Handler).
limitListenerForServer(requestLimit, connectionLimit, listenOK) ==
    IF requestLimit <= 0
    THEN Refused("requestLimit must be > 0")
    ELSE IF connectionLimit < requestLimit
    THEN Refused("connectionLimit must be >= requestLimit")
    ELSE IF ~listenOK
    THEN Refused("listen")
    ELSE [err |-> "nil", listening |-> TRUE, gate |-> connectionLimit,
          wrapped |-> TRUE, limiter |-> New(requestLimit)]

\* The connection limits tried with a request limit: one too small, the
\* smallest allowed, and the double the documentation recommends.
ConnectionLimits(requestLimit) == {requestLimit - 1, requestLimit, requestLimit + requestLimit}

\* The two composite constructors of the HTTP server.
HTTPConstructors == {"ListenAndServe", "ListenAndServeTLS"}

\* A call of ListenAndServeTLS; certOK: the certificate and key files load.
TLSCall(requestLimit, connectionLimit, listenOK, certOK) ==
    [fn |-> "ListenAndServeTLS", limit |-> requestLimit,
     connectionLimit |-> connectionLimit, listenOK |-> listenOK, custom |-> FALSE,
     certOK |-> certOK]

HTTPCalls ==
    {Call("ListenAndServe", requestLimit, connectionLimit, listenOK, FALSE) :
        requestLimit \in Limits,
        connectionLimit \in UNION {ConnectionLimits(l) : l \in Limits},
        listenOK \in BOOLEAN}
    \cup
    {TLSCall(requestLimit, connectionLimit, listenOK, certOK) :
        requestLimit \in Limits,
        connectionLimit \in UNION {ConnectionLimits(l) : l \in Limits},
        listenOK \in BOOLEAN,
        certOK \in BOOLEAN}

\* func ListenAndServe(srv, requestLimit, connectionLimit): the error of
\* limitListenerForServer, or srv.Serve(limitedListener).
ListenAndServe(requestLimit, connectionLimit, listenOK) ==
    limitListenerForServer(requestLimit, connectionLimit, listenOK)

\* Mutant of ListenAndServeTLS: the certificate is loaded before the set-up.
ListenAndServeTLSLoadsFirst(requestLimit, connectionLimit, listenOK, certOK) ==
    IF ~certOK THEN Refused("certificate")
    ELSE limitListenerForServer(requestLimit, connectionLimit, listenOK)

\* func ListenAndServeTLS(srv, certFile, keyFile, requestLimit, connectionLimit):
\* the error of limitListenerForServer, or srv.ServeTLS(limitedListener,
\* certFile, keyFile), which returns the error of loading the key pair
\* before it serves: the set-up stays done, the listener open and unserved.
ListenAndServeTLS(requestLimit, connectionLimit, listenOK, certOK) ==
    LET r == limitListenerForServer(requestLimit, connectionLimit, listenOK)
    IN  IF r.err = "nil" /\ ~certOK
        THEN [r EXCEPT !.err = "certificate"]
        ELSE r

\* A call of one of the two constructors.
InitHTTP ==
    \E c \in HTTPCalls :
        /\ c.connectionLimit \in ConnectionLimits(c.limit)
        /\ ctor = c
        /\ LET r == IF c.fn = "ListenAndServeTLS"
                    THEN ListenAndServeTLS(c.limit, c.connectionLimit, c.listenOK, c.certOK)
                    ELSE ListenAndServe(c.limit, c.connectionLimit, c.listenOK)
           IN /\ srv = [err |-> r.err, listening |-> r.listening, gate |-> r.gate,
                        wrapped |-> r.wrapped]
              /\ InitLimiter(r.limiter)

Serving == srv.err = "nil" /\ srv.listening

\* Mutant of Accept: it does not wait for a free slot.
AcceptNoGate(w) ==
    /\ process = "running"
    /\ Serving
    /\ pc[w] = "idle"
    /\ sem' = sem + 1
    /\ pc' = [pc EXCEPT ![w] = "conn"]
    /\ UNCHANGED <<ctor, second, via, logger, client,
                   srv, resp, outcome, limiter, max, current,
                   mu, process, next, ret, retry, calls>>

\* netutil.LimitListener's Accept: waits for a free slot of the semaphore,
\* then accepts; the server starts a goroutine for the connection.
Accept(w) ==
    /\ process = "running"
    /\ Serving
    /\ pc[w] = "idle"
    /\ sem < srv.gate
    /\ sem' = sem + 1
    /\ pc' = [pc EXCEPT ![w] = "conn"]
    /\ UNCHANGED <<ctor, second, via, logger, client,
                   srv, resp, outcome, limiter, max, current, mu, process,
                   next, ret, retry, calls>>

\* The limited connection's Close: gives the slot back.
ConnClose(w) ==
    /\ process = "running"
    /\ pc[w] \in {"responded", "recovered"}
    /\ sem' = sem - 1
    /\ pc' = [pc EXCEPT ![w] = "closed"]
    /\ UNCHANGED <<ctor, second, via, logger, client,
                   srv, resp, outcome, limiter, max, current, mu, process,
                   next, ret, retry, calls>>

httpError(status, text) ==
    [status |-> status, body |-> text \o "\n"]

\* Mutant of HandlerAfterStart: the return after the 429 is missing, so the
\* wrapped handler runs for a rejected request too.
HandlerAfterStartFallsThrough(w) ==
    /\ process = "running"
    /\ WrappedByHandler
    /\ pc[w] \in {"admitted", "rejected"}
    /\ resp' = [resp EXCEPT ![w] =
                    IF ret[w].err = ErrLimited
                    THEN httpError(StatusTooManyRequests, ret[w].err)
                    ELSE @]
    /\ pc' = [pc EXCEPT ![w] = "handler"]
    /\ outcome' = [outcome EXCEPT ![w] = "running"]
    /\ UNCHANGED <<ctor, second, via, logger, client,
                   srv, sem, limiter, max, current, mu, process,
                   next, ret, retry, calls>>

\* Mutant of HandlerAfterStart: the check for an error other than
\* ErrLimited is missing.
HandlerAfterStartOnlySentinel(w) ==
    /\ process = "running"
    /\ WrappedByHandler
    /\ pc[w] \in {"admitted", "rejected"}
    /\ IF ret[w].err = ErrLimited
       THEN /\ resp' = [resp EXCEPT ![w] = httpError(StatusTooManyRequests, ret[w].err)]
            /\ pc' = [pc EXCEPT ![w] = "responded"]
            /\ outcome' = outcome
       ELSE /\ resp' = resp
            /\ pc' = [pc EXCEPT ![w] = "handler"]
            /\ outcome' = [outcome EXCEPT ![w] = "running"]
    /\ UNCHANGED <<ctor, second, via, logger, client,
                   srv, sem, limiter, max, current, mu, process,
                   next, ret, retry, calls>>

\* Handler, after end, err := limiter.Start():
\*   if err == ErrLimited { http.Error(w, err.Error(), 429); return }
\*   if err != nil { http.Error(w, StatusText(500), 500); return }
\*   handler.ServeHTTP(w, r)
HandlerAfterStart(w) ==
    /\ process = "running"
    /\ WrappedByHandler
    /\ pc[w] \in {"admitted", "rejected"}
    /\ IF ret[w].err = ErrLimited
       THEN /\ resp' = [resp EXCEPT ![w] = httpError(StatusTooManyRequests, ret[w].err)]
            /\ pc' = [pc EXCEPT ![w] = "responded"]
            /\ outcome' = outcome
       ELSE IF ret[w].err # "nil"
       THEN /\ resp' = [resp EXCEPT ![w] =
                    httpError(StatusInternalServerError, "Internal Server Error")]
            /\ pc' = [pc EXCEPT ![w] = "responded"]
            /\ outcome' = outcome
       ELSE /\ resp' = resp
            /\ pc' = [pc EXCEPT ![w] = "handler"]
            /\ outcome' = [outcome EXCEPT ![w] = "running"]
    /\ UNCHANGED <<ctor, second, via, logger, client,
                   srv, sem, limiter, max, current, mu, process,
                   next, ret, retry, calls>>

\* handler.ServeHTTP(w, r) returns.
ServeHTTPReturn(w) ==
    /\ process = "running"
    /\ WrappedByHandler
    /\ pc[w] = "handler"
    /\ outcome' = [outcome EXCEPT ![w] = "ok"]
    /\ pc' = [pc EXCEPT ![w] = "served"]
    /\ UNCHANGED <<ctor, second, via, logger, client,
                   srv, sem, resp, limiter, max, current, mu, process,
                   next, ret, retry, calls>>

\* handler.ServeHTTP(w, r) panics: the panic leaves Handler's function at
\* once (end() is a plain statement after the call, not deferred).
ServeHTTPPanic(w) ==
    /\ process = "running"
    /\ WrappedByHandler
    /\ pc[w] = "handler"
    /\ outcome' = [outcome EXCEPT ![w] = "panic"]
    /\ pc' = [pc EXCEPT ![w] = "panic"]
    /\ UNCHANGED <<ctor, second, via, logger, client,
                   srv, sem, resp, limiter, max, current, mu, process,
                   next, ret, retry, calls>>

\* end()
HandlerEnd(w) ==
    /\ process = "running"
    /\ WrappedByHandler
    /\ pc[w] = "served"
    /\ calls' = [calls EXCEPT ![w] = @ + 1]
    /\ pc' = [pc EXCEPT ![w] = "end_lock"]
    /\ UNCHANGED <<wrapVars, limiter, max, current, mu, process, next, ret, retry>>

\* Handler's function returns; the server completes the response, with
\* status 200 when the wrapped handler wrote none.
HandlerDone(w) ==
    /\ process = "running"
    /\ WrappedByHandler
    /\ pc[w] = "released"
    /\ resp' = [resp EXCEPT ![w] = [status |-> StatusOK, body |-> ""]]
    /\ pc' = [pc EXCEPT ![w] = "responded"]
    /\ UNCHANGED <<ctor, second, via, logger, client,
                   srv, sem, outcome, limiter, max, current, mu, process,
                   next, ret, retry, calls>>

\* net/http recovers a panic of a handler (Recover) and closes the
\* connection (ConnClose).
NextHTTP ==
    \E w \in Workers :
        \/ Accept(w)
        \/ StartCall(w)
        \/ StartStep(w)
        \/ HandlerAfterStart(w)
        \/ ServeHTTPReturn(w)
        \/ ServeHTTPPanic(w)
        \/ HandlerEnd(w)
        \/ EndStep(w)
        \/ HandlerDone(w)
        \/ Recover(w)
        \/ ConnClose(w)

SpecHTTP == InitHTTP /\ [][NextHTTP]_vars

----------------------------------------------------------------------------
\* The gRPC server: NewServerWithInterceptors, Serve, UnaryInterceptor.
\* A worker is one client connection that carries one unary call.

codesOK == 0
codesUnknown == 2
rateLimitStatus == 8       \* const rateLimitStatus = codes.ResourceExhausted

\* Mutant of NewServerWithInterceptors: the check is requestLimit < 0.
NewServerWithInterceptorsAllowsZero(requestLimit, custom) ==
    IF requestLimit < 0
    THEN [err |-> "requestLimit must be > 0", server |-> FALSE, wrapped |-> FALSE,
          limiter |-> NoLimiter]
    ELSE [err |-> "nil", server |-> TRUE, wrapped |-> TRUE,
          limiter |-> New(requestLimit)]

\* func NewServerWithInterceptors(addr, requestLimit, unaryInterceptor, options...):
\* the check of requestLimit, concurrentlimit.New(requestLimit),
\* UnaryInterceptor(requestLimiter, unaryInterceptor).
NewServerWithInterceptors(requestLimit, custom) ==
    IF requestLimit <= 0
    THEN [err |-> "requestLimit must be > 0", server |-> FALSE, wrapped |-> FALSE,
          limiter |-> NoLimiter]
    ELSE [err |-> "nil", server |-> TRUE, wrapped |-> TRUE,
          limiter |-> New(requestLimit)]

\* func Listen(network, address, connectionLimit): net.Listen (which the
\* system may refuse), then netutil.LimitListener(unlimitedListener, connectionLimit).
Listen(connectionLimit, listenOK) ==
    IF ~listenOK
    THEN [err |-> "listen", listening |-> FALSE, gate |-> 0]
    ELSE [err |-> "nil", listening |-> TRUE, gate |-> connectionLimit]

\* Mutant of Serve: only a negative connectionLimit is refused.
ServeAllowsZero(connectionLimit, listenOK) ==
    IF connectionLimit < 0
    THEN [err |-> "connectionLimit must be >= 0", listening |-> FALSE, gate |-> 0]
    ELSE Listen(connectionLimit, listenOK)

\* func Serve(server, addr, connectionLimit): the check of connectionLimit,
\* concurrentlimit.Listen, server.Serve(listener).
Serve(connectionLimit, listenOK) ==
    IF connectionLimit <= 0
    THEN [err |-> "connectionLimit must be >= 0", listening |-> FALSE, gate |-> 0]
    ELSE Listen(connectionLimit, listenOK)

GRPCCalls ==
    {Call("NewServerWithInterceptors", requestLimit, connectionLimit, listenOK, custom) :
        requestLimit \in Limits,
        connectionLimit \in UNION {ConnectionLimits(l) : l \in Limits},
        listenOK \in BOOLEAN,
        custom \in BOOLEAN}

\* NewServerWithInterceptors, and Serve on the server it returned.
InitGRPC ==
    \E c \in GRPCCalls :
        /\ c.connectionLimit \in ConnectionLimits(c.limit)
        /\ ctor = c
        /\ LET n == NewServerWithInterceptors(c.limit, c.custom)
               s == IF n.err = "nil"
                    THEN Serve(c.connectionLimit, c.listenOK)
                    ELSE [err |-> n.err, listening |-> FALSE, gate |-> 0]
           IN /\ srv = [err |-> s.err, listening |-> s.listening, gate |-> s.gate,
                        wrapped |-> n.wrapped]
              /\ InitLimiter(n.limiter)

statusError(code, text) == [status |-> code, body |-> text]

\* Mutant of InterceptorAfterStart: the return on ErrLimited is missing, so
\* the chain runs for a rejected call too.
InterceptorAfterStartFallsThrough(w) ==
    /\ process = "running"
    /\ WrappedByInterceptor
    /\ pc[w] \in {"admitted", "rejected"}
    /\ resp' = [resp EXCEPT ![w] =
                    IF ret[w].err = ErrLimited
                    THEN statusError(rateLimitStatus, ret[w].err)
                    ELSE @]
    /\ pc' = [pc EXCEPT ![w] = IF ctor.custom THEN "interceptor" ELSE "handler"]
    /\ outcome' = [outcome EXCEPT ![w] = "running"]
    /\ UNCHANGED <<ctor, second, via, logger, client,
                   srv, sem, limiter, max, current, mu, process,
                   next, ret, retry, calls>>

\* Mutant of InterceptorAfterStart: end() is called at once instead of
\* being deferred.
InterceptorAfterStartEndsFirst(w) ==
    /\ process = "running"
    /\ WrappedByInterceptor
    /\ pc[w] \in {"admitted", "rejected"}
    /\ IF ret[w].err = ErrLimited
       THEN /\ resp' = [resp EXCEPT ![w] = statusError(rateLimitStatus, ret[w].err)]
            /\ pc' = [pc EXCEPT ![w] = "responded"]
       ELSE /\ resp' = resp
            /\ pc' = [pc EXCEPT ![w] = IF ctor.custom THEN "interceptor" ELSE "handler"]
    /\ outcome' = [outcome EXCEPT ![w] = IF ret[w].err = ErrLimited THEN @ ELSE "running"]
    /\ current' = IF ret[w].err = ErrLimited THEN current ELSE current - 1
    /\ calls' = [calls EXCEPT ![w] = IF ret[w].err = ErrLimited THEN @ ELSE @ + 1]
    /\ UNCHANGED <<ctor, second, via, logger, client,
                   srv, sem, limiter, max, mu, process, next, ret, retry>>

\* The interceptor, after end, err := limiter.Start():
\*   if err == concurrentlimit.ErrLimited { return nil, status.Error(rateLimitStatus, err.Error()) }
\*   if err != nil { return nil, err }
\*   defer end()
\*   if next != nil { return next(ctx, req, info, handler) }
\*   return handler(ctx, req)
InterceptorAfterStart(w) ==
    /\ process = "running"
    /\ WrappedByInterceptor
    /\ pc[w] \in {"admitted", "rejected"}
    /\ IF ret[w].err = ErrLimited
       THEN /\ resp' = [resp EXCEPT ![w] = statusError(rateLimitStatus, ret[w].err)]
            /\ pc' = [pc EXCEPT ![w] = "responded"]
            /\ outcome' = outcome
       ELSE IF ret[w].err # "nil"
       THEN /\ resp' = [resp EXCEPT ![w] = statusError(codesUnknown, ret[w].err)]
            /\ pc' = [pc EXCEPT ![w] = "responded"]
            /\ outcome' = outcome
       ELSE /\ resp' = resp
            /\ pc' = [pc EXCEPT ![w] = IF ctor.custom THEN "interceptor" ELSE "handler"]
            /\ outcome' = [outcome EXCEPT ![w] = "running"]
    /\ current' = current
    /\ calls' = calls
    /\ UNCHANGED <<ctor, second, via, logger, client,
                   srv, sem, limiter, max, mu, process, next, ret, retry>>

\* The user-supplied interceptor calls handler(ctx, req).
NextCallsHandler(w) ==
    /\ process = "running"
    /\ WrappedByInterceptor
    /\ pc[w] = "interceptor"
    /\ pc' = [pc EXCEPT ![w] = "handler"]
    /\ UNCHANGED <<wrapVars, limiter, max, current, mu, process, next, ret, retry, calls>>

\* The user-supplied interceptor ends without calling the handler: it
\* returns an error of its own, or panics.
NextEnds(w) ==
    /\ process = "running"
    /\ WrappedByInterceptor
    /\ pc[w] = "interceptor"
    /\ \E o \in {"error", "panic"} : outcome' = [outcome EXCEPT ![w] = o]
    /\ pc' = [pc EXCEPT ![w] = "served"]
    /\ UNCHANGED <<ctor, second, via, logger, client,
                   srv, sem, resp, limiter, max, current, mu, process,
                   next, ret, retry, calls>>

\* handler(ctx, req) ends: it returns a response, returns an error, or panics.
UnaryHandlerEnds(w) ==
    /\ process = "running"
    /\ WrappedByInterceptor
    /\ pc[w] = "handler"
    /\ \E o \in {"ok", "error", "panic"} : outcome' = [outcome EXCEPT ![w] = o]
    /\ pc' = [pc EXCEPT ![w] = "served"]
    /\ UNCHANGED <<ctor, second, via, logger, client,
                   srv, sem, resp, limiter, max, current, mu, process,
                   next, ret, retry, calls>>

\* Mutant of DeferredEnd: end() is a plain statement after the call, which
\* a panic skips.
DeferredEndSkippedByPanic(w) ==
    /\ process = "running"
    /\ WrappedByInterceptor
    /\ pc[w] = "served"
    /\ calls' = [calls EXCEPT ![w] = IF outcome[w] = "panic" THEN @ ELSE @ + 1]
    /\ pc' = [pc EXCEPT ![w] = IF outcome[w] = "panic" THEN "panic" ELSE "end_lock"]
    /\ UNCHANGED <<wrapVars, limiter, max, current, mu, process, next, ret, retry>>

\* The deferred end() runs when the interceptor's function is left, by a
\* return or by a panic.
DeferredEnd(w) ==
    /\ process = "running"
    /\ WrappedByInterceptor
    /\ pc[w] = "served"
    /\ calls' = [calls EXCEPT ![w] = @ + 1]
    /\ pc' = [pc EXCEPT ![w] = "end_lock"]
    /\ UNCHANGED <<wrapVars, limiter, max, current, mu, process, next, ret, retry>>

\* The interceptor's function is left: the result goes to the client, or
\* the panic goes on up the goroutine.
InterceptorReturn(w) ==
    /\ process = "running"
    /\ WrappedByInterceptor
    /\ pc[w] = "released"
    /\ IF outcome[w] = "panic"
       THEN /\ resp' = resp
            /\ pc' = [pc EXCEPT ![w] = "panic"]
       ELSE /\ resp' = [resp EXCEPT ![w] =
                    IF outcome[w] = "ok"
                    THEN statusError(codesOK, "")
                    ELSE statusError(codesUnknown, "handler error")]
            /\ pc' = [pc EXCEPT ![w] = "responded"]
    /\ UNCHANGED <<ctor, second, via, logger, client,
                   srv, sem, outcome, limiter, max, current, mu, process,
                   next, ret, retry, calls>>

\* grpc does not recover a panic of a handler: the process ends (Crash).
NextGRPC ==
    \E w \in Workers :
        \/ Accept(w)
        \/ StartCall(w)
        \/ StartStep(w)
        \/ InterceptorAfterStart(w)
        \/ NextCallsHandler(w)
        \/ NextEnds(w)
        \/ UnaryHandlerEnds(w)
        \/ DeferredEnd(w)
        \/ EndStep(w)
        \/ InterceptorReturn(w)
        \/ Crash(w)
        \/ ConnClose(w)

SpecGRPC == InitGRPC /\ [][NextGRPC]_vars

----------------------------------------------------------------------------
\* The options of the gRPC server: grpc.MaxConcurrentStreams(uint32(requestLimit)).
\* An int of the 64-bit builds is four 16-bit limbs, most significant first,
\* in two's complement; a uint32 is two limbs.

Limb == 65536

LimbSamples == {0, 1, Limb \div 2, Limb - 1}

Int64s == {<<a, b, c, d>> : a \in LimbSamples, b \in LimbSamples,
                            c \in LimbSamples, d \in LimbSamples}

\* requestLimit <= 0 on an int: the sign bit is set, or every bit is clear.
NotPositive(x) == x[1] >= Limb \div 2 \/ x = <<0, 0, 0, 0>>

\* uint32(x) keeps the low 32 bits.
uint32(x) == <<x[3], x[4]>>

\* The uint32 as an int again, to compare it with requestLimit.
intOfUint32(u) == <<0, 0, u[1], u[2]>>

OptionCalls ==
    {Call("NewServerWithInterceptors", requestLimit, 0, FALSE, FALSE) :
        requestLimit \in Int64s}

\* Before the call of NewServerWithInterceptors.
InitOptions ==
    /\ ctor \in OptionCalls
    /\ srv = NoServer
    /\ InitLimiter(NoLimiter)

\* NewServerWithInterceptors on an int of full width: the check of
\* requestLimit, the Limiter, the interceptor and the stream cap.
BuildOptions ==
    /\ ctor \in OptionCalls
    /\ srv = NoServer
    /\ IF NotPositive(ctor.limit)
       THEN /\ srv' = [err |-> "requestLimit must be > 0", listening |-> FALSE,
                       gate |-> 0, wrapped |-> FALSE]
            /\ UNCHANGED <<limiter, max>>
       ELSE /\ srv' = [err |-> "nil", listening |-> FALSE, gate |-> 0, wrapped |-> TRUE,
                       maxStreams |-> uint32(ctor.limit)]
            /\ limiter' = "syncLimiter"
            /\ max' = ctor.limit
    /\ UNCHANGED <<ctor, second, via, logger, client,
                   sem, resp, outcome, current, mu, process, pc, next, ret,
                   retry, calls>>

NextOptions == BuildOptions

SpecOptions == InitOptions /\ [][NextOptions]_vars

----------------------------------------------------------------------------
\* One client connection carries every call: a worker is one stream of that
\* connection, and the server lets at most srv.maxStreams streams of a
\* connection be open at once (grpc.MaxConcurrentStreams).

\* A small non-negative number as an int, and a uint32 as a number.
Int64(n) == <<0, 0, n \div Limb, n % Limb>>

Uint32Value(u) == u[1] * Limb + u[2]

\* NewServer (no interceptor of the user) and Serve with the same limit.
OneClientCalls ==
    {Call("NewServerWithInterceptors", requestLimit, requestLimit, listenOK, FALSE) :
        requestLimit \in Limits, listenOK \in BOOLEAN}

\* NewServer and Serve, keeping the stream cap of the options.
InitOneClient ==
    \E c \in OneClientCalls :
        /\ ctor = c
        /\ LET n == NewServerWithInterceptors(c.limit, c.custom)
               s == IF n.err = "nil"
                    THEN Serve(c.connectionLimit, c.listenOK)
                    ELSE [err |-> n.err, listening |-> FALSE, gate |-> 0]
           IN /\ srv = [err |-> s.err, listening |-> s.listening, gate |-> s.gate,
                        wrapped |-> n.wrapped,
                        maxStreams |-> IF n.server
                                       THEN Uint32Value(uint32(Int64(c.limit)))
                                       ELSE 0]
              /\ InitLimiter(n.limiter)

\* The client dials its one connection; the listener accepts it.
Dial ==
    /\ process = "running"
    /\ Serving
    /\ sem = 0
    /\ sem < srv.gate
    /\ sem' = sem + 1
    /\ UNCHANGED <<ctor, second, via, logger, client,
                   srv, resp, outcome, limiter, max, current, mu, process,
                   pc, next, ret, retry, calls>>

\* The streams of the connection that are open: the calls the client has
\* sent and whose status is not yet written.
ActiveStreams == {w \in Workers : pc[w] \notin {"idle", "closed"}}

\* Mutant of OpenStream: no cap on the streams of a connection.
OpenStreamNoCap(w) ==
    /\ process = "running"
    /\ sem = 1
    /\ pc[w] = "idle"
    /\ \A v \in Workers : v < w => pc[v] # "idle"
    /\ pc' = [pc EXCEPT ![w] = "conn"]
    /\ UNCHANGED <<wrapVars, limiter, max, current, mu, process, next, ret, retry, calls>>

\* The client sends a call on the connection: a new stream, which waits
\* while the connection has srv.maxStreams open streams. The streams of a
\* connection are numbered in the order they are opened: worker w is the
\* w-th stream.
OpenStream(w) ==
    /\ process = "running"
    /\ sem = 1
    /\ pc[w] = "idle"
    /\ \A v \in Workers : v < w => pc[v] # "idle"
    /\ Cardinality(ActiveStreams) < srv.maxStreams
    /\ pc' = [pc EXCEPT ![w] = "conn"]
    /\ UNCHANGED <<wrapVars, limiter, max, current, mu, process, next, ret, retry, calls>>

\* The status of the call is written and its stream ends.
StreamClose(w) ==
    /\ process = "running"
    /\ pc[w] = "responded"
    /\ pc' = [pc EXCEPT ![w] = "closed"]
    /\ UNCHANGED <<wrapVars, limiter, max, current, mu, process, next, ret, retry, calls>>

NextOneClient ==
    \/ Dial
    \/ \E w \in Workers :
        \/ OpenStream(w)
        \/ StartCall(w)
        \/ StartStep(w)
        \/ InterceptorAfterStart(w)
        \/ UnaryHandlerEnds(w)
        \/ DeferredEnd(w)
        \/ EndStep(w)
        \/ InterceptorReturn(w)
        \/ Crash(w)
        \/ StreamClose(w)

SpecOneClient == InitOneClient /\ [][NextOneClient]_vars

----------------------------------------------------------------------------
\* The connection gate by itself: Listen, and a program that accepts
\* connections from the listener and closes them.

\* Listen is given any connectionLimit >= 0; with 0 no slot is ever free.
GateCalls ==
    {Call("Listen", 0, connectionLimit, listenOK, FALSE) :
        connectionLimit \in 0..NumWorkers, listenOK \in BOOLEAN}

InitGate ==
    \E c \in GateCalls :
        /\ ctor = c
        /\ LET l == Listen(c.connectionLimit, c.listenOK)
           IN  srv = [err |-> l.err, listening |-> l.listening, gate |-> l.gate,
                      wrapped |-> FALSE]
        /\ InitLimiter(NoLimiter)

\* Mutant of Close: the slot is not given back.
CloseKeepsSlot(w) ==
    /\ ctor.fn = "Listen"
    /\ pc[w] = "conn"
    /\ sem' = sem
    /\ pc' = [pc EXCEPT ![w] = "closed"]
    /\ UNCHANGED <<ctor, second, via, logger, client,
                   srv, resp, outcome, limiter, max, current,
                   mu, process, next, ret, retry, calls>>

\* The limited connection's Close, called by the program that accepted it:
\* closes the connection and gives the slot back.
Close(w) ==
    /\ ctor.fn = "Listen"
    /\ pc[w] = "conn"
    /\ sem' = sem - 1
    /\ pc' = [pc EXCEPT ![w] = "closed"]
    /\ UNCHANGED <<ctor, second, via, logger, client,
                   srv, resp, outcome, limiter, max, current,
                   mu, process, next, ret, retry, calls>>

\* Mutant of CloseAgain: every Close gives a slot back.
CloseAgainReleases(w) ==
    /\ ctor.fn = "Listen"
    /\ pc[w] = "closed"
    /\ sem' = sem - 1
    /\ pc' = [pc EXCEPT ![w] = "closed_again"]
    /\ UNCHANGED <<ctor, second, via, logger, client,
                   srv, resp, outcome, limiter, max, current,
                   mu, process, next, ret, retry, calls>>

\* Close on a connection that is closed already: the slot was given back
\* by the first Close and is not given back again.
CloseAgain(w) ==
    /\ ctor.fn = "Listen"
    /\ pc[w] = "closed"
    /\ sem' = sem
    /\ pc' = [pc EXCEPT ![w] = "closed_again"]
    /\ UNCHANGED <<ctor, second, via, logger, client,
                   srv, resp, outcome, limiter, max, current,
                   mu, process, next, ret, retry, calls>>

\* The client of a closed connection connects again.
Redial(w) ==
    /\ ctor.fn = "Listen"
    /\ pc[w] \in {"closed", "closed_again"}
    /\ pc' = [pc EXCEPT ![w] = "idle"]
    /\ UNCHANGED <<wrapVars, limiter, max, current, mu, process, next, ret, retry, calls>>

NextGate ==
    \E w \in Workers :
        \/ Accept(w)
        \/ Close(w)
        \/ CloseAgain(w)
        \/ Redial(w)

SpecGate == InitGate /\ [][NextGate]_vars

\* A program that never connects a client again after its connection was
\* closed; the listener's goroutine calls Accept in a loop.
NextGateOnce ==
    \E w \in Workers :
        \/ Accept(w)
        \/ Close(w)
        \/ CloseAgain(w)

FairGate ==
    /\ InitGate
    /\ [][NextGateOnce]_vars
    /\ WF_vars(\E w \in Workers : Accept(w))

----------------------------------------------------------------------------
\* The timeouts of the http.Server that limitListenerForServer is given.
\* A time.Duration is counted in seconds here.

httpIdleTimeout == 60
httpReadHeaderTimeout == 60

MaxSetUps == 2     \* calls of limitListenerForServer on one http.Server

\* srv.ReadHeaderTimeout and srv.IdleTimeout as the program set them before
\* the call: unset (0), negative, or positive.
Timeouts == {0 - 1, 0, 1, httpReadHeaderTimeout, httpReadHeaderTimeout + 1}

\* Mutant of timeoutDefaults: the defaults replace what the program set.
timeoutDefaultsOverwrite(t) ==
    [ReadHeaderTimeout |-> httpReadHeaderTimeout, IdleTimeout |-> httpIdleTimeout]

\* if srv.ReadHeaderTimeout <= 0 { srv.ReadHeaderTimeout = httpReadHeaderTimeout }
\* if srv.IdleTimeout <= 0 { srv.IdleTimeout = httpIdleTimeout }
timeoutDefaults(t) ==
    [ReadHeaderTimeout |-> IF t.ReadHeaderTimeout <= 0
                           THEN httpReadHeaderTimeout ELSE t.ReadHeaderTimeout,
     IdleTimeout |-> IF t.IdleTimeout <= 0
                     THEN httpIdleTimeout ELSE t.IdleTimeout]

\* The http.Server and the arguments, before the first call.
InitSetUp ==
    \E c \in HTTPCalls, t \in [ReadHeaderTimeout : Timeouts, IdleTimeout : Timeouts] :
        /\ ctor = c
        /\ srv = [err |-> "nil", listening |-> FALSE, gate |-> 0, wrapped |-> FALSE,
                  timeouts |-> t, setUps |-> 0]
        /\ InitLimiter(NoLimiter)

\* Mutant of SetUp: the timeouts and the handler are configured before the
\* limits are checked.
SetUpConfiguresFirst ==
    /\ ctor.fn \in HTTPConstructors
    /\ srv.setUps < MaxSetUps
    /\ \E listenOK \in BOOLEAN :
        LET r == limitListenerForServer(ctor.limit, ctor.connectionLimit, listenOK)
        IN  IF r.err # "nil"
            THEN /\ srv' = [srv EXCEPT !.err = r.err, !.setUps = @ + 1,
                                       !.timeouts = timeoutDefaults(@),
                                       !.wrapped = TRUE]
                 /\ UNCHANGED <<limiter, max, current, mu>>
            ELSE /\ srv' = [err |-> r.err, listening |-> r.listening, gate |-> r.gate,
                            wrapped |-> r.wrapped,
                            timeouts |-> timeoutDefaults(srv.timeouts),
                            setUps |-> srv.setUps + 1]
                 /\ limiter' = r.limiter.limiter
                 /\ max' = r.limiter.max
                 /\ current' = r.limiter.current
                 /\ mu' = r.limiter.mu
    /\ UNCHANGED <<ctor, second, via, logger, client,
                   sem, resp, outcome, process, pc, next, ret,
                   retry, calls>>

\* limitListenerForServer(srv, requestLimit, connectionLimit): the checks of
\* the limits and net.Listen come first and return early; then the timeouts,
\* the Limiter and the handler.  The system may refuse any net.Listen.
SetUp ==
    /\ ctor.fn \in HTTPConstructors
    /\ srv.setUps < MaxSetUps
    /\ \E listenOK \in BOOLEAN :
        LET r == limitListenerForServer(ctor.limit, ctor.connectionLimit, listenOK)
        IN  IF r.err # "nil"
            THEN /\ srv' = [srv EXCEPT !.err = r.err, !.setUps = @ + 1]
                 /\ UNCHANGED <<limiter, max, current, mu>>
            ELSE /\ srv' = [err |-> r.err, listening |-> r.listening, gate |-> r.gate,
                            wrapped |-> r.wrapped,
                            timeouts |-> timeoutDefaults(srv.timeouts),
                            setUps |-> srv.setUps + 1]
                 /\ limiter' = r.limiter.limiter
                 /\ max' = r.limiter.max
                 /\ current' = r.limiter.current
                 /\ mu' = r.limiter.mu
    /\ UNCHANGED <<ctor, second, via, logger, client,
                   sem, resp, outcome, process, pc, next, ret,
                   retry, calls>>

NextSetUp == SetUp

SpecSetUp == InitSetUp /\ [][NextSetUp]_vars

----------------------------------------------------------------------------
\* Another Limiter in the process of the HTTP server, built by its own call
\* of New and used by a caller of its own.  Its Start and its release are
\* one step each: each runs under the mutex of that Limiter.

SecondLimit == 1   \* the capacities of the other Limiter are 1..SecondLimit

\* limiter2 := New(limit)
SecondNew ==
    /\ process = "running"
    /\ second = NoSecond
    /\ \E limit \in 1..SecondLimit :
        LET l == New(limit)
        IN  second' = [limiter |-> l.limiter, max |-> l.max, current |-> l.current,
                       last |-> "none"]
    /\ UNCHANGED <<ctor, via, logger, client,
                   srv, sem, resp, outcome, limiter, max, current, mu,
                   process, pc, next, ret, retry, calls>>

\* Mutant of SecondStart: the counter is a variable of the package, shared
\* by every Limiter.
SecondStartSharedCounter ==
    /\ process = "running"
    /\ second.limiter = "syncLimiter"
    /\ ~mu
    /\ IF current + 1 > second.max
       THEN /\ second' = [second EXCEPT !.last = "rejected"]
            /\ current' = current
       ELSE /\ second' = [second EXCEPT !.last = "admitted"]
            /\ current' = current + 1
    /\ UNCHANGED <<ctor, via, logger, client, srv, sem, resp, outcome, limiter, max, mu,
                   process, pc, next, ret, retry, calls>>

\* end2, err := limiter2.Start()
SecondStart ==
    /\ process = "running"
    /\ second.limiter = "syncLimiter"
    /\ IF second.current + 1 > second.max
       THEN second' = [second EXCEPT !.last = "rejected"]
       ELSE second' = [second EXCEPT !.current = @ + 1, !.last = "admitted"]
    /\ current' = current
    /\ UNCHANGED <<ctor, via, logger, client, srv, sem, resp, outcome, limiter, max, mu,
                   process, pc, next, ret, retry, calls>>

\* end2(), by a caller that holds a slot of the other Limiter
SecondEnd ==
    /\ process = "running"
    /\ second.limiter = "syncLimiter"
    /\ second.current > 0
    /\ second' = [second EXCEPT !.current = @ - 1]
    /\ UNCHANGED <<ctor, via, logger, client,
                   srv, sem, resp, outcome, limiter, max, current, mu,
                   process, pc, next, ret, retry, calls>>

NextTwo ==
    \/ NextHTTP
    \/ SecondNew
    \/ SecondStart
    \/ SecondEnd

\* The server of ListenAndServe with another Limiter beside it.
InitTwo == InitHTTP /\ ctor.fn = "ListenAndServe"

SpecTwo == InitTwo /\ [][NextTwo]_vars

----------------------------------------------------------------------------
\* Handler(limiter, handler) and UnaryInterceptor(limiter, next) with a
\* Limiter of another implementation: what its Start and its release
\* function do inside is not this package's; a Start returns a release
\* function, ErrLimited, or an error of its own.

OtherErrors == {"backend unavailable"}

OtherLimiter == [limiter |-> "other", max |-> 0, current |-> 0, mu |-> FALSE, panic |-> FALSE]

WrapperCalls ==
    {Call("Handler", 0, 0, TRUE, FALSE)}
        \cup {Call("UnaryInterceptor", 0, 0, TRUE, custom) : custom \in BOOLEAN}

InitOther ==
    \E c \in WrapperCalls :
        /\ ctor = c
        /\ srv = NoServer
        /\ InitLimiter(OtherLimiter)

\* end, err := limiter.Start() of the other implementation, for a request
\* that reached the wrapper.
OtherStart(w) ==
    /\ process = "running"
    /\ limiter = "other"
    /\ pc[w] = "idle"
    /\ \E r \in {[end |-> "other.end", err |-> "nil"]}
                    \cup {[end |-> "nil", err |-> e] : e \in {ErrLimited} \cup OtherErrors} :
        /\ ret' = [ret EXCEPT ![w] = r]
        /\ pc' = [pc EXCEPT ![w] = IF r.err = "nil" THEN "admitted" ELSE "rejected"]
    /\ UNCHANGED <<wrapVars, limiter, max, current, mu, process, next, retry, calls>>

\* end() of the other implementation; the call of a nil func panics.
OtherEnd(w) ==
    /\ process = "running"
    /\ limiter = "other"
    /\ pc[w] = "end_lock"
    /\ pc' = [pc EXCEPT ![w] = IF ret[w].end = "nil" THEN "panic" ELSE "released"]
    /\ UNCHANGED <<wrapVars, limiter, max, current, mu, process, next, ret, retry, calls>>

NextOther ==
    \E w \in Workers :
        \/ OtherStart(w)
        \/ HandlerAfterStart(w)
        \/ ServeHTTPReturn(w)
        \/ ServeHTTPPanic(w)
        \/ HandlerEnd(w)
        \/ HandlerDone(w)
        \/ (WrappedByHandler /\ Recover(w))
        \/ InterceptorAfterStart(w)
        \/ NextCallsHandler(w)
        \/ NextEnds(w)
        \/ UnaryHandlerEnds(w)
        \/ DeferredEnd(w)
        \/ InterceptorReturn(w)
        \/ (WrappedByInterceptor /\ Crash(w))
        \/ OtherEnd(w)

SpecOther == InitOther /\ [][NextOther]_vars

----------------------------------------------------------------------------
\* The sleep server: sleepImplementation and its concurrentMaxLogger.  A
\* worker is one request; via[w] tells whether it came in by HTTP
\* (rawRootHandler, rootHandler) or as the Sleep RPC.

\* The server without a Limiter of its own: every request that arrives
\* runs sleepImplementation.
InitLogger ==
    /\ ctor = Call("sleepyserver", 0, 0, TRUE, FALSE)
    /\ srv = NoServer
    /\ InitLimiter(NoLimiter)

\* A request arrives and sleepImplementation is entered.
SleepRequest(w) ==
    /\ process = "running"
    /\ ctor.fn = "sleepyserver"
    /\ pc[w] = "idle"
    /\ \E v \in {"http", "grpc"} : via' = [via EXCEPT ![w] = v]
    /\ outcome' = [outcome EXCEPT ![w] = "running"]
    /\ pc' = [pc EXCEPT ![w] = "log_start"]
    /\ UNCHANGED <<ctor, second, logger, client, srv, sem, resp, limiter, max,
                   current, mu, process, next, ret, retry, calls>>

\* Mutant of LoggerStart: max is compared before current is incremented.
LoggerStartComparesFirst(w) ==
    /\ process = "running"
    /\ pc[w] = "log_start"
    /\ ~logger.mu
    /\ logger' = [logger EXCEPT !.current = @ + 1,
                                !.max = IF logger.current > @ THEN logger.current ELSE @]
    /\ pc' = [pc EXCEPT ![w] = "make"]
    /\ UNCHANGED <<ctor, second, via, client, srv, sem, resp, outcome, limiter,
                   max, current, mu, process, next, ret, retry, calls>>

\* defer s.logger.start()(): start() runs now, under c.mu from Lock to Unlock:
\*   c.current++; if c.current > c.max { c.max = c.current }
LoggerStart(w) ==
    /\ process = "running"
    /\ pc[w] = "log_start"
    /\ ~logger.mu
    /\ logger' = [logger EXCEPT !.current = @ + 1,
                                !.max = IF logger.current + 1 > @ THEN logger.current + 1 ELSE @]
    /\ pc' = [pc EXCEPT ![w] = "make"]
    /\ UNCHANGED <<ctor, second, via, client, srv, sem, resp, outcome, limiter,
                   max, current, mu, process, next, ret, retry, calls>>

\* wasteSlice := make([]byte, request.WasteBytes), and the loop that touches
\* its pages; make panics for a negative length.
Allocate(w) ==
    /\ process = "running"
    /\ pc[w] = "make"
    /\ \E negative \in BOOLEAN :
        IF negative
        THEN /\ outcome' = [outcome EXCEPT ![w] = "panic"]
             /\ pc' = [pc EXCEPT ![w] = "log_end"]
        ELSE /\ outcome' = outcome
             /\ pc' = [pc EXCEPT ![w] = "check_duration"]
    /\ UNCHANGED <<ctor, second, via, logger, client, srv, sem, resp, limiter,
                   max, current, mu, process, next, ret, retry, calls>>

\* if request.SleepDuration != nil { ... if err != nil { return nil, err } }
\* rootHandler builds the duration from a time.Duration, which is always
\* valid; an RPC client can send one that is not.
CheckDuration(w) ==
    /\ process = "running"
    /\ pc[w] = "check_duration"
    /\ \E valid \in BOOLEAN :
        /\ ~valid => via[w] = "grpc"
        /\ IF valid
           THEN /\ outcome' = outcome
                /\ pc' = [pc EXCEPT ![w] = "sleep"]
           ELSE /\ outcome' = [outcome EXCEPT ![w] = "error"]
                /\ pc' = [pc EXCEPT ![w] = "log_end"]
    /\ UNCHANGED <<ctor, second, via, logger, client, srv, sem, resp, limiter,
                   max, current, mu, process, next, ret, retry, calls>>

\* time.Sleep(duration), the loop that reads the slice, and the return of
\* the response.
Sleep(w) ==
    /\ process = "running"
    /\ pc[w] = "sleep"
    /\ outcome' = [outcome EXCEPT ![w] = "ok"]
    /\ pc' = [pc EXCEPT ![w] = "log_end"]
    /\ UNCHANGED <<ctor, second, via, logger, client, srv, sem, resp, limiter,
                   max, current, mu, process, next, ret, retry, calls>>

\* The deferred c.end() runs when sleepImplementation is left, under c.mu:
\*   c.current--; if c.current < 0 { panic(...) }
\* The panic leaves c.mu locked.
LoggerEnd(w) ==
    /\ process = "running"
    /\ pc[w] = "log_end"
    /\ ~logger.mu
    /\ logger' = [logger EXCEPT !.current = @ - 1, !.mu = (logger.current - 1 < 0)]
    /\ pc' = [pc EXCEPT ![w] = IF logger.current - 1 < 0 THEN "panic" ELSE "log_ended"]
    /\ UNCHANGED <<ctor, second, via, client, srv, sem, resp, outcome, limiter,
                   max, current, mu, process, next, ret, retry, calls>>

\* sleepImplementation is left: its results go to rootHandler or Sleep, or
\* the panic of make goes on.  Neither rootHandler nor Sleep recovers it:
\* net/http recovers the panic of an HTTP request, the panic of an RPC ends
\* the process.
LoggedReturn(w) ==
    /\ process = "running"
    /\ ctor.fn = "sleepyserver"
    /\ pc[w] = "log_ended"
    /\ pc' = [pc EXCEPT ![w] = IF outcome[w] = "panic" THEN "panic" ELSE "released"]
    /\ UNCHANGED <<wrapVars, limiter, max, current, mu, process, next, ret, retry, calls>>

NextLogger ==
    \E w \in Workers :
        \/ SleepRequest(w)
        \/ LoggerStart(w)
        \/ Allocate(w)
        \/ CheckDuration(w)
        \/ Sleep(w)
        \/ LoggerEnd(w)
        \/ LoggedReturn(w)
        \/ (via[w] = "http" /\ Recover(w))
        \/ (via[w] = "grpc" /\ Crash(w))

SpecLogger == InitLogger /\ [][NextLogger]_vars

----------------------------------------------------------------------------
\* The sleep server with a Limiter of its own: main builds it from the flag
\* concurrentRequests, sleepImplementation starts with s.limiter.Start().

codesResourceExhausted == 8

MaxRequests == 2   \* requests that reach the server with a Limiter of its own

\* s := &server{concurrentMaxLogger{}, concurrentlimit.NoLimit(), *logAll}
\* if *concurrentRequests > 0 { s.limiter = concurrentlimit.New(*concurrentRequests) }
InitSleep ==
    \E concurrentRequests \in Limits :
        /\ ctor = Call("limitserver", concurrentRequests, 0, TRUE, FALSE)
        /\ srv = NoServer
        /\ InitLimiter(IF concurrentRequests > 0 THEN New(concurrentRequests) ELSE NoLimit)

\* A request arrives: as the Sleep RPC, or by HTTP, where rootHandler returns
\* the error of a parameter it cannot parse and rawRootHandler answers 500.
LimitedSleepRequest(w) ==
    /\ process = "running"
    /\ ctor.fn = "limitserver"
    /\ w <= MaxRequests
    /\ pc[w] = "idle"
    /\ \E v \in {"http", "grpc"}, parsed \in BOOLEAN :
        /\ ~parsed => v = "http"
        /\ via' = [via EXCEPT ![w] = v]
        /\ IF parsed
           THEN /\ resp' = resp
                /\ pc' = [pc EXCEPT ![w] = "conn"]
           ELSE /\ resp' = [resp EXCEPT ![w] =
                        httpError(StatusInternalServerError, "invalid syntax")]
                /\ pc' = [pc EXCEPT ![w] = "responded"]
    /\ UNCHANGED <<ctor, second, logger, client, srv, sem, outcome, limiter, max,
                   current, mu, process, next, ret, retry, calls>>

\* Mutant of SleepAfterStart: the error of Start is not looked at.
SleepAfterStartIgnoresError(w) ==
    /\ process = "running"
    /\ ctor.fn = "limitserver"
    /\ pc[w] \in {"admitted", "rejected"}
    /\ outcome' = [outcome EXCEPT ![w] = "running"]
    /\ pc' = [pc EXCEPT ![w] = "log_start"]
    /\ UNCHANGED <<ctor, second, via, logger, client, srv, sem, resp, limiter,
                   max, current, mu, process, next, ret, retry, calls>>

\* sleepImplementation, after end, err := s.limiter.Start():
\*   if err != nil { return nil, err }
\*   defer end()
SleepAfterStart(w) ==
    /\ process = "running"
    /\ ctor.fn = "limitserver"
    /\ pc[w] \in {"admitted", "rejected"}
    /\ IF ret[w].err # "nil"
       THEN /\ outcome' = outcome
            /\ pc' = [pc EXCEPT ![w] = "returned"]
       ELSE /\ outcome' = [outcome EXCEPT ![w] = "running"]
            /\ pc' = [pc EXCEPT ![w] = "log_start"]
    /\ UNCHANGED <<ctor, second, via, logger, client, srv, sem, resp, limiter,
                   max, current, mu, process, next, ret, retry, calls>>

\* Mutant of SleepDeferredEnd: end() is a plain statement before the last
\* return, which the error return and a panic skip.
SleepEndOnlyOnSuccess(w) ==
    /\ process = "running"
    /\ ctor.fn = "limitserver"
    /\ pc[w] = "log_ended"
    /\ calls' = [calls EXCEPT ![w] = IF outcome[w] = "ok" THEN @ + 1 ELSE @]
    /\ pc' = [pc EXCEPT ![w] = IF outcome[w] = "ok" THEN "end_lock" ELSE "released"]
    /\ UNCHANGED <<wrapVars, limiter, max, current, mu, process, next, ret, retry>>

\* The deferred end() of the Limiter runs after the deferred end of the
\* logger, whichever way sleepImplementation is left.
SleepDeferredEnd(w) ==
    /\ process = "running"
    /\ ctor.fn = "limitserver"
    /\ pc[w] = "log_ended"
    /\ calls' = [calls EXCEPT ![w] = @ + 1]
    /\ pc' = [pc EXCEPT ![w] = "end_lock"]
    /\ UNCHANGED <<wrapVars, limiter, max, current, mu, process, next, ret, retry>>

\* What sleepImplementation returned as its error.
sleepError(w) ==
    IF pc[w] = "returned" THEN ret[w].err
    ELSE IF outcome[w] = "error" THEN "invalid duration"
    ELSE "nil"

\* sleepImplementation is left.  A panic goes on up.  rawRootHandler writes
\* 429 for ErrLimited and 500 for another error; Sleep turns ErrLimited into
\* status.Error(codes.ResourceExhausted, err.Error()).
SleepReport(w) ==
    /\ process = "running"
    /\ ctor.fn = "limitserver"
    /\ pc[w] \in {"returned", "released"}
    /\ IF pc[w] = "released" /\ outcome[w] = "panic"
       THEN /\ resp' = resp
            /\ pc' = [pc EXCEPT ![w] = "panic"]
       ELSE /\ resp' = [resp EXCEPT ![w] =
                    LET err == sleepError(w)
                    IN  IF via[w] = "http"
                        THEN IF err = "nil" THEN [status |-> StatusOK, body |-> "slept"]
                             ELSE httpError(IF err = ErrLimited THEN StatusTooManyRequests
                                            ELSE StatusInternalServerError, err)
                        ELSE IF err = "nil" THEN statusError(codesOK, "")
                             ELSE IF err = ErrLimited
                             THEN statusError(codesResourceExhausted, err)
                             ELSE statusError(codesUnknown, err)]
            /\ pc' = [pc EXCEPT ![w] = "responded"]
    /\ UNCHANGED <<ctor, second, via, logger, client, srv, sem, outcome, limiter,
                   max, current, mu, process, next, ret, retry, calls>>

\* net/http recovers the panic of an HTTP request; the panic of an RPC ends
\* the process.
NextSleep ==
    \E w \in Workers :
        \/ LimitedSleepRequest(w)
        \/ StartCall(w)
        \/ StartStep(w)
        \/ SleepAfterStart(w)
        \/ LoggerStart(w)
        \/ Allocate(w)
        \/ CheckDuration(w)
        \/ Sleep(w)
        \/ LoggerEnd(w)
        \/ SleepDeferredEnd(w)
        \/ EndStep(w)
        \/ SleepReport(w)
        \/ (via[w] = "http" /\ Recover(w))
        \/ (via[w] = "grpc" /\ Crash(w))

SpecSleep == InitSleep /\ [][NextSleep]_vars

----------------------------------------------------------------------------
\* The load client: main and its sendRequestsGoroutine goroutines.  Worker w
\* is the w-th goroutine; resp[w] is the last answer it got from the server.

MaxGoroutines == 2   \* the flag concurrent is at most MaxGoroutines
MaxSends == 2        \* a goroutine counts at most MaxSends requests

\* var errRetry = errors.New("retriable error")
errRetry == "retriable error"

DeadlineExceeded == "context deadline exceeded"

\* The status of an answer that is no response: client.Get returned an
\* error, or the dial of the RPC client did; body is the error's text.
NoStatus == 0 - 1

\* Texts of Get errors that contain "connection reset by peer",
\* "write: broken pipe" or "operation timed out".
RetriableTexts ==
    {"read: connection reset by peer", "write: broken pipe", "dial tcp: operation timed out"}

\* What the server or the network can give a request of the sender.  For
\* HTTP: an error of Get, or a response with a status and a body that can be
\* drained and closed ("") or not.  For the RPC: the deadline of the dial
\* when the sender has no client yet (g.client == nil), or the status of the
\* call.
Answers(sender, connected) ==
    IF sender = "http"
    THEN {[status |-> NoStatus, body |-> e] :
                e \in RetriableTexts \cup {"connect: connection refused"}}
         \cup {[status |-> s, body |-> b] :
                s \in {StatusOK, StatusTooManyRequests, StatusInternalServerError},
                b \in {"", "unexpected EOF"}}
    ELSE (IF connected THEN {} ELSE {[status |-> NoStatus, body |-> DeadlineExceeded]})
         \cup {statusError(c, "") : c \in {codesOK, codesResourceExhausted, codesUnknown}}

\* Mutant of httpSend: only a status other than 200 and 429 is an error.
httpSendTakes429(answer) ==
    IF answer.status = NoStatus
    THEN IF answer.body \in RetriableTexts THEN errRetry ELSE answer.body
    ELSE IF answer.body # "" THEN answer.body
    ELSE IF answer.status \notin {StatusOK, StatusTooManyRequests}
    THEN "expected status ok: 500 Internal Server Error"
    ELSE "nil"

\* func (h *httpSender) send: errRetry for the errors of Get it knows, any
\* other error of Get as it is; the error of draining or closing the body;
\* then errRetry for status 429 and an error for another status than 200.
httpSend(answer) ==
    IF answer.status = NoStatus
    THEN IF answer.body \in RetriableTexts THEN errRetry ELSE answer.body
    ELSE IF answer.body # "" THEN answer.body
    ELSE IF answer.status = StatusTooManyRequests THEN errRetry
    ELSE IF answer.status # StatusOK THEN "expected status ok: 500 Internal Server Error"
    ELSE "nil"

\* func (g *grpcSender) send: the error of the dial, errRetry for
\* ResourceExhausted, else the error of the call.
grpcSend(answer) ==
    IF answer.status = NoStatus THEN answer.body
    ELSE IF answer.status = codesResourceExhausted THEN errRetry
    ELSE IF answer.status # codesOK THEN "rpc error"
    ELSE "nil"

InitClient ==
    /\ ctor = Call("loadclient", 0, 0, TRUE, FALSE)
    /\ srv = NoServer
    /\ InitLimiter(NoLimiter)

\* main: flag.Parse() and the choice of the sender: -httpTarget, else
\* -grpcTarget, else panic("specify --httpTarget or --grpcTarget").  With
\* -grpcTarget and -shareGRPC main sends a request of its own first.
ClientMain ==
    /\ process = "running"
    /\ ctor.fn = "loadclient"
    /\ client.main = "none"
    /\ \E concurrent \in (0 - 1)..MaxGoroutines, sender \in {"http", "grpc", "none"},
          shareGRPC \in BOOLEAN :
        /\ shareGRPC => sender = "grpc"
        /\ client' = [client EXCEPT !.concurrent = concurrent,
                                    !.main = IF sender = "none" THEN "panic"
                                             ELSE IF shareGRPC THEN "share"
                                             ELSE "launch"]
        /\ via' = [w \in Workers |-> sender]
        /\ process' = IF sender = "none" THEN "crashed" ELSE process
    /\ UNCHANGED <<ctor, second, logger, srv, sem, resp, outcome, limiter, max,
                   current, mu, pc, next, ret, retry, calls>>

\* Mutant of SharedSend: main goes on when its request was rejected.
SharedSendRetries ==
    /\ process = "running"
    /\ client.main = "share"
    /\ \E answer \in Answers("grpc", FALSE) :
        LET err == grpcSend(answer)
        IN  /\ client' = [client EXCEPT !.mainErr = err,
                                        !.connected =
                                            [w \in Workers |-> answer.status # NoStatus],
                                        !.main = IF err \in {"nil", errRetry} THEN "launch"
                                                 ELSE "panic"]
            /\ process' = IF err \in {"nil", errRetry} THEN process ELSE "crashed"
    /\ UNCHANGED <<ctor, second, via, logger, srv, sem, resp, outcome, limiter,
                   max, current, mu, pc, next, ret, retry, calls>>

\* err := sender.send(req); if err != nil { panic(err) }: the request that
\* creates the RPC client that every clone then shares.  It is not counted.
SharedSend ==
    /\ process = "running"
    /\ client.main = "share"
    /\ \E answer \in Answers("grpc", FALSE) :
        LET err == grpcSend(answer)
        IN  /\ client' = [client EXCEPT !.mainErr = err,
                                        !.connected =
                                            [w \in Workers |-> answer.status # NoStatus],
                                        !.main = IF err = "nil" THEN "launch" ELSE "panic"]
            /\ process' = IF err = "nil" THEN process ELSE "crashed"
    /\ UNCHANGED <<ctor, second, via, logger, srv, sem, resp, outcome, limiter,
                   max, current, mu, pc, next, ret, retry, calls>>

\* for i := 0; i < *concurrent; i++ { go sendRequestsGoroutine(...) }, and
\* after the loop time.Sleep(*duration) begins.
GoStatement ==
    /\ process = "running"
    /\ client.main = "launch"
    /\ IF client.i < client.concurrent
       THEN /\ client' = [client EXCEPT !.i = @ + 1]
            /\ pc' = [pc EXCEPT ![client.i + 1] = "select"]
       ELSE /\ client' = [client EXCEPT !.main = "sleeping"]
            /\ pc' = pc
    /\ UNCHANGED <<ctor, second, via, logger, srv, sem, resp, outcome, limiter,
                   max, current, mu, process, next, ret, retry, calls>>

\* close(done), and the receive loop begins.
CloseDone ==
    /\ process = "running"
    /\ client.main = "sleeping"
    /\ client' = [client EXCEPT !.done = "closed", !.main = "receive", !.i = 0]
    /\ UNCHANGED <<ctor, second, via, logger, srv, sem, resp, outcome, limiter,
                   max, current, mu, process, pc, next, ret, retry, calls>>

\* select { case <-done: break sendLoop; default: }
Select(w) ==
    /\ process = "running"
    /\ pc[w] = "select"
    /\ client.done = "open" => client.requestCount[w] < MaxSends
    /\ pc' = [pc EXCEPT ![w] = IF client.done = "closed" THEN "send_total" ELSE "send"]
    /\ UNCHANGED <<wrapVars, limiter, max, current, mu, process, next, ret, retry, calls>>

\* err := sender.send(req)
Send(w) ==
    /\ process = "running"
    /\ pc[w] = "send"
    /\ \E answer \in Answers(via[w], client.connected[w]) :
        /\ resp' = [resp EXCEPT ![w] = answer]
        /\ client' = [client EXCEPT
                        !.err[w] = IF via[w] = "http" THEN httpSend(answer)
                                   ELSE grpcSend(answer),
                        !.connected[w] = @ \/ (via[w] = "grpc" /\ answer.status # NoStatus)]
    /\ pc' = [pc EXCEPT ![w] = "check_err"]
    /\ UNCHANGED <<ctor, second, via, logger, srv, sem, outcome, limiter, max,
                   current, mu, process, next, ret, retry, calls>>

\* Mutant of AfterSend: the request is counted before the error is looked at.
AfterSendCountsAll(w) ==
    /\ process = "running"
    /\ pc[w] = "check_err"
    /\ client' = [client EXCEPT !.requestCount[w] = @ + 1,
                                !.err[w] = IF client.err[w] = "nil" THEN "unset" ELSE @]
    /\ pc' = [pc EXCEPT ![w] =
                IF client.err[w] = "nil" THEN "select"
                ELSE IF client.err[w] \in {errRetry, DeadlineExceeded} THEN "backoff"
                ELSE "panic"]
    /\ resp' = [resp EXCEPT ![w] = NoResp]
    /\ UNCHANGED <<ctor, second, via, logger, srv, sem, outcome, limiter,
                   max, current, mu, process, next, ret, retry, calls>>

\* if err != nil { if err == errRetry || err == context.DeadlineExceeded {
\*     time.Sleep(time.Second); continue }; panic(err) }
\* requestCount++
AfterSend(w) ==
    /\ process = "running"
    /\ pc[w] = "check_err"
    /\ IF client.err[w] = "nil"
       THEN /\ client' = [client EXCEPT !.requestCount[w] = @ + 1, !.err[w] = "unset"]
            /\ pc' = [pc EXCEPT ![w] = "select"]
       ELSE /\ client' = client
            /\ pc' = [pc EXCEPT ![w] =
                        IF client.err[w] \in {errRetry, DeadlineExceeded}
                        THEN "backoff" ELSE "panic"]
    /\ resp' = [resp EXCEPT ![w] = NoResp]    \* the response is closed and dropped
    /\ UNCHANGED <<ctor, second, via, logger, srv, sem, outcome, limiter,
                   max, current, mu, process, next, ret, retry, calls>>

\* time.Sleep(time.Second) is over; continue: err of this iteration is gone.
Backoff(w) ==
    /\ process = "running"
    /\ pc[w] = "backoff"
    /\ pc' = [pc EXCEPT ![w] = "select"]
    /\ client' = [client EXCEPT !.err[w] = "unset"]
    /\ UNCHANGED <<ctor, second, via, logger, srv, sem, resp, outcome, limiter,
                   max, current, mu, process, next, ret, retry, calls>>

\* Mutant of CloseTotals: main closes the channel after the first total.
CloseTotalsEarly ==
    /\ process = "running"
    /\ client.main = "receive"
    /\ client.i >= 1 \/ client.i >= client.concurrent
    /\ client' = [client EXCEPT !.totalRequestsChan = "closed", !.main = "exited"]
    /\ UNCHANGED <<ctor, second, via, logger, srv, sem, resp, outcome, limiter,
                   max, current, mu, process, pc, next, ret, retry, calls>>

\* totalRequestsChan <- requestCount meets totalRequests += <-totalRequestsChan
\* of main's loop: the channel has no buffer.  A send on a closed channel
\* panics.
TotalTransfer(w) ==
    /\ process = "running"
    /\ pc[w] = "send_total"
    /\ IF client.totalRequestsChan = "closed"
       THEN /\ client' = client
            /\ pc' = [pc EXCEPT ![w] = "panic"]
       ELSE /\ client.main = "receive"
            /\ client.i < client.concurrent
            /\ client' = [client EXCEPT !.totalRequests = @ + client.requestCount[w],
                                        !.i = @ + 1,
                                        !.sent[w] = @ + 1]
            /\ pc' = [pc EXCEPT ![w] = "exited"]
    /\ UNCHANGED <<ctor, second, via, logger, srv, sem, resp, outcome, limiter,
                   max, current, mu, process, next, ret, retry, calls>>

\* The receive loop is over: close(totalRequestsChan), the log line, return.
CloseTotals ==
    /\ process = "running"
    /\ client.main = "receive"
    /\ client.i >= client.concurrent
    /\ client' = [client EXCEPT !.totalRequestsChan = "closed", !.main = "exited"]
    /\ UNCHANGED <<ctor, second, via, logger, srv, sem, resp, outcome, limiter,
                   max, current, mu, process, pc, next, ret, retry, calls>>

NextClient ==
    \/ ClientMain
    \/ SharedSend
    \/ GoStatement
    \/ CloseDone
    \/ CloseTotals
    \/ \E w \in Workers :
        \/ Select(w)
        \/ Send(w)
        \/ AfterSend(w)
        \/ Backoff(w)
        \/ TotalTransfer(w)
        \/ Crash(w)

SpecClient == InitClient /\ [][NextClient]_vars

\* Every goroutine and main keep running, and every send returns.
FairClient == SpecClient /\ WF_vars(NextClient)

----------------------------------------------------------------------------
\* The steps of Start between taking the mutex and returning: straight-line
\* code of a running goroutine, which the scheduler does not starve.
StartBody(w) ==
    \/ StartNext(w)
    \/ StartCheck(w)
    \/ StartWrite(w)
    \/ StartUnlock(w)

FairSpec == Spec /\ \A w \in Workers : WF_vars(StartBody(w))

----------------------------------------------------------------------------
\* Vocabulary of the properties.

\* Worker w holds a slot: its Start was admitted (s.current = next is done)
\* and the one release of it has not yet decremented.
Open(w) ==
    \/ pc[w] = "start_unlock" /\ ret[w].err = "nil"
    \/ pc[w] = "admitted"
    \/ pc[w] \in {"end_lock", "end_dec"} /\ calls[w] = 1
    \/ pc[w] \in {"interceptor", "handler", "served"}

OpenCount == Cardinality({w \in Workers : Open(w)})

OthersOpen(w) == Cardinality({v \in Workers \ {w} : Open(v)})

InStart(w) == pc[w] \in {"start_next", "start_check", "start_write", "start_unlock"}

\* Worker w's Start takes its decision in this step.
Decides(w) == pc[w] = "start_check" /\ pc'[w] # "start_check"

Admitted == [end |-> "s.end", err |-> "nil"]
Rejected == [end |-> "nil", err |-> ErrLimited]

Bounded == limiter = "syncLimiter"

----------------------------------------------------------------------------
\* C1: for a Limiter built by New(C), C > 0, 0 <= inFlight <= C in every
\* reachable state, when each release function is called at most once.
LimiterBounds == Bounded => (0 <= current /\ current <= max)

LimiterBoundsWitness ==
    /\ Bounded
    /\ max = MaxLimit
    /\ current = max
    /\ \E w \in Workers : pc[w] = "rejected"
    /\ \E w \in Workers : pc[w] = "end_lock"

\* C2: on a Limiter of capacity C, Starts are rejected only while C
\* operations are open, so any C workers are never rejected; a Start that
\* decides while C others are open returns (nil, ErrLimited); an admitted
\* Start returns (release, nil).
FirstCAdmitted ==
    Bounded =>
        /\ \A w \in Workers :
            pc[w] = "start_unlock" =>
                /\ (OthersOpen(w) < max => ret[w] = Admitted)
                /\ (OthersOpen(w) = max => ret[w] = Rejected)
        /\ \A w \in Workers :
            /\ (pc[w] = "admitted" => ret[w] = Admitted)
            /\ (pc[w] = "rejected" => ret[w] = Rejected)
        /\ (Cardinality({w \in Workers : pc[w] # "idle"}) <= max
                => \A w \in Workers : ret[w].err # ErrLimited)

FirstCAdmittedWitness ==
    /\ Bounded
    /\ max = MaxLimit
    /\ \E w \in Workers :
        /\ pc[w] = "rejected"
        /\ ~retry[w]
        /\ \A v \in Workers \ {w} : pc[v] = "admitted" /\ ~retry[v]

\* C3: at capacity, one release frees exactly one slot: the next Start to
\* decide is admitted and fills it, and a Start that decides after that,
\* with no further release, is rejected.
ReleaseAdmitsOne ==
    [][Bounded => \A w \in Workers :
        /\ (EndDec(w) /\ OpenCount = max => OpenCount' = max - 1)
        /\ (Decides(w) /\ OpenCount = max - 1 => pc'[w] = "start_write")
        /\ (StartWrite(w) /\ OpenCount = max - 1 => OpenCount' = max)
        /\ (Decides(w) /\ OpenCount = max => ret'[w] = Rejected)]_vars

ReleaseAdmitsOneWitness ==
    /\ Bounded
    /\ OpenCount = max
    /\ \E w1, w2, w3 \in Workers :
        /\ pc[w1] = "released"
        /\ pc[w2] = "admitted"
        /\ pc[w3] = "start_unlock" /\ ret[w3] = Rejected

\* C4: calling the same release function twice is always detected (the
\* second call never returns normally) and never lowers inFlight below the
\* number of operations that are open.
DoubleReleaseDetected ==
    Bounded =>
        /\ \A w \in Workers : calls[w] >= 2 => pc[w] \notin {"end_unlock", "released"}
        /\ current >= OpenCount

\* C5: Start on the Limiter NoLimit() returns never fails: it returns
\* (release, nil) to every caller.
NoLimitAlwaysSucceeds ==
    limiter = "nil" =>
        /\ process = "running"
        /\ \A w \in Workers : pc[w] \in {"idle", "admitted", "end_lock", "released"}

\* C6: inFlight is the number of operations admitted and not yet released;
\* it changes only by +1 in a successful Start and by -1 in a release.
InFlightIsOpenCount ==
    /\ [](Bounded => current = OpenCount)
    /\ [][current' # current =>
            \E w \in Workers :
                \/ StartWrite(w) /\ current' = current + 1 /\ ret'[w] = Admitted
                \/ EndDec(w) /\ current' = current - 1]_vars

InFlightIsOpenCountWitness ==
    /\ Bounded
    /\ current = MaxLimit
    /\ \E w \in Workers : pc[w] = "end_dec"
    /\ \E w \in Workers : pc[w] = "start_lock"

\* C7: a rejected Start returns (nil, ErrLimited) and leaves inFlight as
\* it found it, at capacity.
RejectedStartLeavesCounter ==
    /\ [](Bounded => \A w \in Workers :
            /\ (pc[w] = "start_unlock" /\ ret[w].err = ErrLimited
                    => ret[w].end = "nil" /\ current = max /\ current = next[w] - 1)
            /\ (pc[w] = "rejected" => ret[w] = Rejected))
    /\ [][\A w \in Workers :
            (InStart(w) /\ (next'[w] > max \/ ret'[w].err = ErrLimited))
                => current' = current]_vars

RejectedStartLeavesCounterWitness ==
    /\ Bounded
    /\ \E w \in Workers : pc[w] = "rejected" /\ ret[w] = Rejected /\ current = max

\* C8: a release that takes inFlight below zero panics: it does not
\* return normally.
UnderflowPanics ==
    /\ [][\A w \in Workers :
            (pc[w] = "end_check" /\ current < 0 /\ pc'[w] # pc[w])
                => pc'[w] = "panic"]_vars
    /\ [][\A w \in Workers : EndUnlock(w) => current >= 0]_vars
    /\ [](current < 0 =>
            /\ mu = TRUE
            /\ \E w \in Workers : pc[w] \in {"end_check", "panic", "recovered"})

UnderflowPanicsWitness ==
    /\ Bounded
    /\ current < 0
    /\ \E w \in Workers : pc[w] = "panic" /\ calls[w] = 2

\* C9: Start never waits for capacity: once it holds the mutex it returns,
\* admitted or with ErrLimited, and each of its steps is enabled, at
\* capacity too.
StartNeverBlocks ==
    /\ \A w \in Workers : InStart(w) ~> pc[w] \in {"admitted", "rejected"}
    /\ [](\A w \in Workers : InStart(w) => ENABLED StartBody(w))
    /\ [][\A w \in Workers : Decides(w) /\ current = max =>
            pc'[w] = "start_unlock" /\ ret'[w] = Rejected]_vars

StartNeverBlocksWitness ==
    /\ Bounded
    /\ current = max
    /\ mu = FALSE
    /\ \E w \in Workers : pc[w] = "rejected"
    /\ \A w \in Workers : pc[w] \notin {"end_lock", "end_dec", "end_check", "end_unlock"}

\* C10: when every admitted operation has released once, inFlight is 0
\* again, no release has panicked, and Starts are admitted again, those of
\* callers that were rejected before too.
Drained == \A w \in Workers : pc[w] \in {"idle", "rejected", "released"}

DrainedAdmitsAgain ==
    /\ [](Bounded /\ Drained => current = 0 /\ mu = FALSE)
    /\ [](Bounded => process = "running"
            /\ \A w \in Workers : pc[w] \notin {"panic", "recovered"})
    /\ [][Bounded => \A w \in Workers :
            Decides(w) /\ OpenCount < max => pc'[w] = "start_write"]_vars

DrainedAdmitsAgainWitness ==
    /\ Bounded
    /\ max = MaxLimit
    /\ \E w \in Workers :
        /\ pc[w] = "admitted" /\ retry[w]
        /\ \A v \in Workers \ {w} : pc[v] = "released"

\* C11: New(limit) panics and returns no Limiter for every limit <= 0; for
\* every limit > 0 it returns a Limiter of that capacity with inFlight 0.
NewChecksLimit ==
    ctor.fn = "New" =>
        /\ (ctor.limit <= 0 => limiter = "none" /\ process = "crashed")
        /\ (ctor.limit > 0 =>
                /\ limiter = "syncLimiter"
                /\ max = ctor.limit
                /\ process = "running"
                /\ ((\A w \in Workers : pc[w] = "idle") => current = 0 /\ mu = FALSE))

NewChecksLimitWitness ==
    /\ ctor.fn = "New"
    /\ ctor.limit = 0
    /\ limiter = "none"
    /\ process = "crashed"

\* C12: the error a Start returns is nil or the one value ErrLimited, for
\* the Limiter of New and for the one of NoLimit.
StartErrorIsSentinel ==
    \A w \in Workers :
        /\ ret[w].err \in {"unset", "nil", ErrLimited}
        /\ (pc[w] \in {"admitted", "rejected"} => ret[w].err \in {"nil", ErrLimited})
        /\ (ret[w].err = "unset" => ret[w].end = "unset")

StartErrorIsSentinelWitness ==
    /\ \E w \in Workers : pc[w] = "rejected" /\ ret[w].err = ErrLimited
    /\ \E w \in Workers : pc[w] = "admitted" /\ ret[w].err = "nil"

----------------------------------------------------------------------------
\* The servers.

InHandler == {w \in Workers : pc[w] = "handler"}

\* The request of w has had its admission decision and the wrapped handler,
\* if it was invoked, has not ended.
Decided(w) ==
    \/ pc[w] = "handler"
    \/ pc[w] \in {"rejected", "responded"} /\ ret[w] = Rejected

NoHandlerEnded == \A w \in Workers : outcome[w] \in {"none", "running"}

\* C13: with Handler around a Limiter of capacity C, at most C invocations
\* of the wrapped handler execute at the same time.
HandlersWithinLimit ==
    ctor.fn \in HTTPConstructors => Cardinality(InHandler) <= max

HandlersWithinLimitWitness ==
    /\ ctor.fn \in HTTPConstructors
    /\ max = MaxLimit
    /\ Cardinality(InHandler) = max
    /\ \E w \in Workers : pc[w] = "responded" /\ resp[w].status = StatusTooManyRequests

\* C14: in the HTTP middleware the slot of an admitted request is released
\* once on every exit path of the wrapped handler, a panic included.
HandlerAlwaysReleases ==
    ctor.fn \in HTTPConstructors =>
        \A w \in Workers :
            (pc[w] \in {"responded", "recovered", "closed"} /\ outcome[w] \in {"ok", "panic"})
                => calls[w] = 1

\* C15: a request whose Start is rejected gets 429 with the ErrLimited text
\* as body; the wrapped handler is not invoked and no release is called.
RejectedGets429 ==
    /\ [](ctor.fn \in HTTPConstructors => \A w \in Workers :
            /\ (pc[w] \in {"responded", "closed"} /\ ret[w] = Rejected) =>
                    /\ resp[w] = httpError(StatusTooManyRequests, ErrLimited)
                    /\ outcome[w] = "none"
                    /\ calls[w] = 0
            /\ (resp[w].status = StatusTooManyRequests => ret[w] = Rejected))
    /\ [][ctor.fn \in HTTPConstructors => \A w \in Workers :
            (pc[w] = "rejected" /\ pc'[w] # "rejected") =>
                /\ pc'[w] = "responded"
                /\ current' = current]_vars

RejectedGets429Witness ==
    /\ ctor.fn \in HTTPConstructors
    /\ \E w \in Workers :
        /\ pc[w] = "responded"
        /\ resp[w].status = StatusTooManyRequests
        /\ resp[w].body = ErrLimited \o "\n"
    /\ Cardinality(InHandler) = max

\* C16: request limit N, connection limit 2N, N+1 requests on separate
\* connections, no handler ended before all N+1 had their admission
\* decision: exactly N are in the handler and get 200, exactly 1 gets 429.
EndToEndHTTP ==
    ctor.fn \in HTTPConstructors =>
        /\ (/\ Serving
            /\ ctor.connectionLimit = ctor.limit + ctor.limit
            /\ NoHandlerEnded
            /\ \A w \in Workers : Decided(w) \/ pc[w] = "idle"
            /\ Cardinality({w \in Workers : Decided(w)}) = ctor.limit + 1)
           => /\ Cardinality(InHandler) = ctor.limit
              /\ Cardinality({w \in Workers : ret[w] = Rejected}) = 1
        /\ \A w \in Workers :
            pc[w] = "responded" =>
                /\ (outcome[w] = "ok" <=> resp[w].status = StatusOK)
                /\ (ret[w] = Rejected <=> resp[w].status = StatusTooManyRequests)
                /\ resp[w].status \in {StatusOK, StatusTooManyRequests}

EndToEndHTTPWitness ==
    /\ ctor.fn \in HTTPConstructors
    /\ ctor.limit = MaxLimit
    /\ ctor.connectionLimit = ctor.limit + ctor.limit
    /\ NoHandlerEnded
    /\ Cardinality(InHandler) = MaxLimit
    /\ Cardinality({w \in Workers : pc[w] = "responded"
                        /\ resp[w].status = StatusTooManyRequests}) = 1

\* C17: the composite constructor (ListenAndServe, ListenAndServeTLS)
\* returns a configuration error, with no socket opened, when
\* requestLimit <= 0 or connectionLimit < requestLimit; with valid limits
\* (and the address free) it puts a Limiter of capacity requestLimit before
\* the handler and a gate of connectionLimit connections on the listener,
\* also when ServeTLS then fails to load the certificate.
ConstructorValidates ==
    ctor.fn \in HTTPConstructors =>
        LET bad == ctor.limit <= 0 \/ ctor.connectionLimit < ctor.limit
        IN  /\ bad =>
                /\ srv.err \notin {"nil", "listen"}
                /\ ~srv.listening /\ ~srv.wrapped
                /\ limiter = "none"
                /\ \A w \in Workers : pc[w] = "idle"
            /\ (~bad /\ ctor.listenOK) =>
                /\ srv.err = IF ctor.fn = "ListenAndServeTLS" /\ ~ctor.certOK
                             THEN "certificate" ELSE "nil"
                /\ srv.err # "nil" => \A w \in Workers : pc[w] = "idle"
                /\ srv.listening /\ srv.wrapped
                /\ limiter = "syncLimiter" /\ max = ctor.limit
                /\ srv.gate = ctor.connectionLimit
                /\ sem <= srv.gate
            /\ (~bad /\ ~ctor.listenOK) =>
                /\ srv.err = "listen"
                /\ ~srv.listening /\ ~srv.wrapped
                /\ limiter = "none"

ConstructorValidatesWitness ==
    /\ ctor.fn \in HTTPConstructors
    /\ ctor.limit = MaxLimit
    /\ ctor.connectionLimit = MaxLimit - 1
    /\ ctor.listenOK
    /\ srv.err = "connectionLimit must be >= requestLimit"
    /\ ~srv.listening

\* The calls for which the chain behind the limiter is executing: the
\* user-supplied interceptor or the downstream handler.
InChain == {w \in Workers : pc[w] \in {"interceptor", "handler"}}

Releasing(w) == pc[w] \in {"end_lock", "end_dec", "end_check", "end_unlock", "released"}

Ended(w) == outcome[w] \in {"ok", "error", "panic"}

\* C18: in the unary interceptor a call whose Start is rejected returns a
\* ResourceExhausted status, and neither the user-supplied interceptor nor
\* the downstream handler is invoked for it.
RejectedGetsResourceExhausted ==
    /\ [](ctor.fn = "NewServerWithInterceptors" => \A w \in Workers :
            /\ (pc[w] \in {"responded", "closed"} /\ ret[w] = Rejected) =>
                    /\ resp[w] = statusError(rateLimitStatus, ErrLimited)
                    /\ outcome[w] = "none"
                    /\ calls[w] = 0
            /\ (ret[w] = Rejected => w \notin InChain)
            /\ (resp[w].status = rateLimitStatus => ret[w] = Rejected))
    /\ [][ctor.fn = "NewServerWithInterceptors" => \A w \in Workers :
            (pc[w] = "rejected" /\ pc'[w] # "rejected") =>
                /\ pc'[w] = "responded"
                /\ outcome'[w] = "none"
                /\ current' = current]_vars

RejectedGetsResourceExhaustedWitness ==
    /\ ctor.fn = "NewServerWithInterceptors"
    /\ ctor.custom
    /\ \E w \in Workers :
        /\ pc[w] = "responded"
        /\ ret[w] = Rejected
        /\ resp[w].status = rateLimitStatus
        /\ outcome[w] = "none"
    /\ Cardinality(InChain) = max

\* C19: for every call the order of events is Start-admitted, then the
\* user-supplied interceptor (when present) and the downstream handler, then
\* the release; the chain never runs for a call that was not admitted.
ChainBetweenAdmissionAndRelease ==
    /\ [](ctor.fn = "NewServerWithInterceptors" => \A w \in Workers :
            /\ w \in InChain =>
                    /\ ret[w] = Admitted
                    /\ calls[w] = 0
                    /\ outcome[w] = "running"
            /\ outcome[w] # "none" => ret[w] = Admitted
            /\ Releasing(w) => Ended(w)
            /\ calls[w] > 0 => Ended(w))
    /\ [][ctor.fn = "NewServerWithInterceptors" => \A w \in Workers :
            /\ (w \notin InChain /\ pc'[w] \in {"interceptor", "handler"}) =>
                    /\ pc[w] = "admitted"
                    /\ ret[w] = Admitted
                    /\ pc'[w] = IF ctor.custom THEN "interceptor" ELSE "handler"
            /\ (pc[w] = "interceptor" /\ pc'[w] # "interceptor") =>
                    pc'[w] \in {"handler", "served"}
            /\ (pc[w] = "handler" /\ pc'[w] # "handler") => pc'[w] = "served"
            /\ calls'[w] # calls[w] => pc[w] = "served"]_vars

ChainBetweenAdmissionAndReleaseWitness ==
    /\ ctor.fn = "NewServerWithInterceptors"
    /\ ctor.custom
    /\ \E w \in Workers :
        /\ pc[w] = "responded"
        /\ ret[w] = Admitted
        /\ outcome[w] = "ok"
        /\ calls[w] = 1
    /\ \E w \in Workers : pc[w] = "interceptor"
    /\ \E w \in Workers : ret[w] = Rejected

\* C20: every admitted call releases its slot exactly once however it ends
\* (the handler returns a value, returns an error, or panics), and the
\* downstream handler invocations executing at once never exceed the capacity.
AdmittedReleasesOnce ==
    ctor.fn = "NewServerWithInterceptors" =>
        /\ \A w \in Workers :
            /\ calls[w] <= 1
            /\ (ret[w] = Admitted /\ pc[w] \in {"responded", "closed", "panic"}) =>
                    /\ Ended(w)
                    /\ calls[w] = 1
                    /\ ~Open(w)
        /\ Cardinality(InHandler) <= max
        /\ Cardinality(InChain) <= max
        /\ current = OpenCount
        /\ current >= 0

AdmittedReleasesOnceWitness ==
    /\ ctor.fn = "NewServerWithInterceptors"
    /\ \E w \in Workers :
        /\ pc[w] = "panic" /\ outcome[w] = "panic" /\ calls[w] = 1
    /\ \E w \in Workers :
        /\ pc[w] = "closed" /\ outcome[w] = "error" /\ calls[w] = 1
    /\ \E w \in Workers :
        /\ pc[w] = "closed" /\ outcome[w] = "ok" /\ calls[w] = 1
    /\ current = 0

\* The call of w has had its admission decision and its chain, if it was
\* entered, has not ended.
DecidedRPC(w) ==
    \/ w \in InChain
    \/ pc[w] \in {"rejected", "responded"} /\ ret[w] = Rejected

\* C21: request limit N, N+1 unary calls on separate connections, no handler
\* ended before all N+1 had their admission decision: exactly N are admitted
\* and return OK, exactly 1 returns ResourceExhausted.
EndToEndGRPC ==
    ctor.fn = "NewServerWithInterceptors" =>
        /\ (/\ Serving
            /\ NoHandlerEnded
            /\ \A w \in Workers : DecidedRPC(w) \/ pc[w] = "idle"
            /\ Cardinality({w \in Workers : DecidedRPC(w)}) = ctor.limit + 1)
           => /\ Cardinality(InChain) = ctor.limit
              /\ Cardinality({w \in Workers : ret[w] = Rejected}) = 1
        /\ \A w \in Workers :
            pc[w] = "responded" =>
                /\ (outcome[w] = "ok" <=> resp[w].status = codesOK)
                /\ (ret[w] = Rejected <=> resp[w].status = rateLimitStatus)
                /\ (outcome[w] = "error" <=> resp[w].status = codesUnknown)

EndToEndGRPCWitness ==
    /\ ctor.fn = "NewServerWithInterceptors"
    /\ ctor.limit = MaxLimit
    /\ NoHandlerEnded
    /\ Cardinality({w \in Workers : pc[w] = "handler"}) = MaxLimit
    /\ Cardinality({w \in Workers : pc[w] = "responded"
                        /\ resp[w].status = rateLimitStatus}) = 1

\* C22: constructing or serving an RPC server with a connectionLimit smaller
\* than its requestLimit fails with a configuration error before any
\* listener is opened.
RPCConnectionLimitChecked ==
    (ctor.fn = "NewServerWithInterceptors" /\ ctor.connectionLimit < ctor.limit) =>
        /\ srv.err \notin {"nil", "listen"}
        /\ ~srv.listening
        /\ sem = 0

\* C23: NewServer / NewServerWithInterceptors returns an error and no server
\* for every requestLimit <= 0, and a server whose interceptor is a Limiter
\* of capacity requestLimit for every requestLimit > 0.
RPCConstructorChecksRequestLimit ==
    ctor.fn = "NewServerWithInterceptors" =>
        LET n == NewServerWithInterceptors(ctor.limit, ctor.custom)
        IN  /\ srv.wrapped = n.server
            /\ ctor.limit <= 0 =>
                /\ n.err # "nil" /\ ~n.server
                /\ srv.err = n.err
                /\ ~srv.wrapped /\ ~srv.listening
                /\ limiter = "none"
                /\ \A w \in Workers : pc[w] = "idle"
            /\ ctor.limit > 0 =>
                /\ n.err = "nil" /\ n.server
                /\ srv.wrapped
                /\ limiter = "syncLimiter" /\ max = ctor.limit

RPCConstructorChecksRequestLimitWitness ==
    /\ ctor.fn = "NewServerWithInterceptors"
    /\ ctor.limit = 0
    /\ ~ctor.custom
    /\ srv.err = "requestLimit must be > 0"
    /\ ~srv.wrapped

\* C25: for every accepted requestLimit (every positive int) the stream cap
\* configured on the RPC server equals requestLimit.
MaxStreamsEqualsRequestLimit ==
    (ctor \in OptionCalls /\ srv.wrapped) =>
        intOfUint32(srv.maxStreams) = ctor.limit

\* What holds instead: the cap is requestLimit modulo 2^32, and equals
\* requestLimit exactly when requestLimit is below 2^32.
MaxStreamsIsLowWord ==
    (ctor \in OptionCalls /\ srv # NoServer) =>
        /\ srv.wrapped <=> ~NotPositive(ctor.limit)
        /\ srv.wrapped =>
            /\ srv.maxStreams = <<ctor.limit[3], ctor.limit[4]>>
            /\ (intOfUint32(srv.maxStreams) = ctor.limit
                    <=> (ctor.limit[1] = 0 /\ ctor.limit[2] = 0))

LiveConns == {w \in Workers : pc[w] = "conn"}

\* C26: for a gate with limit L, the connections returned by Accept and not
\* yet closed never exceed L, under any interleaving of accepts and closes.
GateBounds ==
    (ctor.fn = "Listen" /\ Serving) =>
        /\ srv.gate = ctor.connectionLimit
        /\ Cardinality(LiveConns) <= srv.gate
        /\ sem = Cardinality(LiveConns)

GateBoundsWitness ==
    /\ ctor.fn = "Listen"
    /\ Serving
    /\ srv.gate = MaxLimit
    /\ Cardinality(LiveConns) = srv.gate
    /\ \E w \in Workers : pc[w] = "idle"
    /\ \E w \in Workers : pc[w] = "idle" /\ ~ENABLED Accept(w)

\* C27: at capacity Accept blocks and returns no error; a Close gives the
\* slot of its connection back, once per connection even if Close is called
\* again; and while a slot is free a waiting Accept eventually proceeds.
GateBlocksAndReclaims ==
    /\ []((ctor.fn = "Listen" /\ Serving) =>
            /\ sem = Cardinality(LiveConns)
            /\ sem >= 0 /\ sem <= srv.gate
            /\ srv.err = "nil"
            /\ sem = srv.gate => \A w \in Workers : ~ENABLED Accept(w)
            /\ sem < srv.gate => \A w \in Workers : pc[w] = "idle" => ENABLED Accept(w))
    /\ [][ctor.fn = "Listen" => \A w \in Workers :
            /\ (pc[w] = "conn" /\ pc'[w] = "closed") => sem' = sem - 1
            /\ (pc[w] = "closed" /\ pc'[w] = "closed_again") => sem' = sem
            /\ (pc[w] = "idle" /\ pc'[w] = "conn") => (sem < srv.gate /\ sem' = sem + 1)]_vars
    /\ \A w \in Workers :
            (ctor.fn = "Listen" /\ Serving /\ pc[w] = "idle" /\ sem < srv.gate)
                ~> (pc[w] # "idle" \/ sem = srv.gate)

GateBlocksAndReclaimsWitness ==
    /\ ctor.fn = "Listen"
    /\ Serving
    /\ srv.gate = 1
    /\ \E w \in Workers : pc[w] = "closed_again"
    /\ \E w \in Workers : pc[w] = "conn"
    /\ \E w \in Workers : pc[w] = "idle" /\ ~ENABLED Accept(w)
    /\ sem = 1

\* C30: once a release has detected an underflow, no later Start on the
\* Limiter is admitted and no later release completes, also when the panic
\* is recovered by the host of the goroutine.
UnderflowIsFinal ==
    /\ [](current < 0 =>
            /\ mu = TRUE
            /\ \A w \in Workers :
                pc[w] \notin {"start_next", "start_check", "start_write", "start_unlock",
                              "end_dec", "end_unlock"}
            /\ \A w \in Workers :
                (pc[w] \in {"start_lock", "end_lock"} /\ process = "running") =>
                    /\ ~ENABLED StartLock(w)
                    /\ ~ENABLED EndLock(w))
    /\ [][current < 0 =>
            /\ current' = current
            /\ mu' = mu
            /\ \A w \in Workers :
                /\ ret'[w] = Admitted => ret[w] = Admitted
                /\ ret'[w] = Rejected => ret[w] = Rejected
                /\ pc'[w] = "admitted" => pc[w] = "admitted"
                /\ pc'[w] = "released" => pc[w] = "released"]_vars

UnderflowIsFinalWitness ==
    /\ current < 0
    /\ process = "running"
    /\ \E w \in Workers : pc[w] = "recovered"
    /\ \E w \in Workers : pc[w] = "start_lock"
    /\ \E w \in Workers : pc[w] = "end_lock"

\* C29: setting up the HTTP server sets a read-header or idle timeout that
\* is unset (<= 0) to a positive default, leaves a positive one unchanged,
\* and a second application changes neither timeout.
TimeoutDefaultsOnce ==
    /\ [](ctor.fn \in HTTPConstructors =>
            LET t == srv.timeouts
                d == timeoutDefaults(t)
            IN  /\ d.ReadHeaderTimeout > 0 /\ d.IdleTimeout > 0
                /\ t.ReadHeaderTimeout > 0 => d.ReadHeaderTimeout = t.ReadHeaderTimeout
                /\ t.IdleTimeout > 0 => d.IdleTimeout = t.IdleTimeout
                /\ t.ReadHeaderTimeout <= 0 => d.ReadHeaderTimeout = httpReadHeaderTimeout
                /\ t.IdleTimeout <= 0 => d.IdleTimeout = httpIdleTimeout
                /\ timeoutDefaults(d) = d
                /\ srv.wrapped =>
                        (t.ReadHeaderTimeout > 0 /\ t.IdleTimeout > 0))
    /\ [][ctor.fn \in HTTPConstructors =>
            LET t == srv.timeouts
                u == srv'.timeouts
            IN  /\ t.ReadHeaderTimeout > 0 => u.ReadHeaderTimeout = t.ReadHeaderTimeout
                /\ t.IdleTimeout > 0 => u.IdleTimeout = t.IdleTimeout
                /\ srv.wrapped => u = t
                /\ (srv'.wrapped /\ ~srv.wrapped) =>
                    /\ u.ReadHeaderTimeout =
                            IF t.ReadHeaderTimeout <= 0 THEN httpReadHeaderTimeout
                            ELSE t.ReadHeaderTimeout
                    /\ u.IdleTimeout =
                            IF t.IdleTimeout <= 0 THEN httpIdleTimeout
                            ELSE t.IdleTimeout]_vars

TimeoutDefaultsOnceWitness ==
    /\ ctor.fn \in HTTPConstructors
    /\ srv.setUps = 2
    /\ srv.wrapped
    /\ srv.err = "nil"
    /\ srv.timeouts = [ReadHeaderTimeout |-> httpReadHeaderTimeout, IdleTimeout |-> 1]

\* C28: the Limiter of the server, the gate of its listener and another
\* Limiter are independent: a Start, a release, an Accept or a Close on one
\* of them never changes the counter of another, and whether one admits
\* depends only on its own counter and capacity.
InstancesIndependent ==
    /\ [](second.limiter = "syncLimiter" =>
            /\ 0 <= second.current /\ second.current <= second.max
            /\ process = "running" => ENABLED SecondStart)
    /\ []((Serving /\ process = "running") => \A w \in Workers :
            pc[w] = "idle" => (ENABLED Accept(w) <=> sem < srv.gate))
    /\ [][/\ second' # second =>
                (current' = current /\ max' = max /\ mu' = mu /\ sem' = sem)
          /\ (current' # current \/ mu' # mu) => (second' = second /\ sem' = sem)
          /\ sem' # sem => (current' = current /\ mu' = mu /\ second' = second)
          /\ \A w \in Workers :
                Decides(w) => (pc'[w] = "start_write" <=> current < max)
          /\ second'.current > second.current =>
                (second.current < second.max /\ second'.last = "admitted")
          /\ (second'.last = "rejected" /\ second.last # "rejected") =>
                (second.current = second.max /\ second'.current = second.current)
          /\ (second'.last = "admitted" /\ second.last # "admitted") =>
                second'.current = second.current + 1]_vars

\* The other Limiter is full and rejects while the server's Limiter has a
\* free slot and a request in its handler, and the gate has a free slot.
InstancesIndependentWitness ==
    /\ ctor.fn \in HTTPConstructors
    /\ Serving
    /\ second.limiter = "syncLimiter"
    /\ second.current = second.max
    /\ second.last = "rejected"
    /\ current = 1 /\ max = MaxLimit
    /\ \E w \in Workers : pc[w] = "handler"
    /\ \E w \in Workers : pc[w] = "start_write" /\ mu = TRUE
    /\ sem < srv.gate

\* C31: the outcome of a Start depends only on inFlight and the capacity
\* at the moment the call holds the lock (admitted iff inFlight < capacity),
\* not on the order of arrival or on earlier rejections of the caller: any
\* waiting caller may take the lock next.
StartOutcomeFromCounter ==
    /\ [](Bounded => \A w \in Workers :
            /\ (pc[w] = "start_lock" /\ ~mu /\ process = "running") => ENABLED StartLock(w)
            /\ pc[w] = "start_check" => (mu = TRUE /\ next[w] = current + 1))
    /\ [][Bounded => \A w \in Workers :
            Decides(w) =>
                /\ pc'[w] = "start_write" <=> current < max
                /\ pc'[w] = "start_unlock" <=> current >= max
                /\ ret'[w] = Rejected <=> current >= max
                /\ current' = current]_vars

\* A caller that repeats a rejected call is rejected again while a caller
\* that came for the first time holds a slot, and another repeated call waits.
StartOutcomeFromCounterWitness ==
    /\ Bounded
    /\ \E w1, w2, w3 \in Workers :
        /\ retry[w1] /\ pc[w1] = "rejected"
        /\ ~retry[w2] /\ pc[w2] = "admitted"
        /\ retry[w3] /\ pc[w3] = "start_lock"

\* C32: with connectionLimit equal to requestLimit (each connection carrying
\* one request at a time) no request is ever answered with 429.
NoRejectionAtEqualLimits ==
    (ctor.fn \in HTTPConstructors /\ Serving /\ ctor.connectionLimit = ctor.limit) =>
        \A w \in Workers : resp[w].status # StatusTooManyRequests

\* What holds of it: at equal limits a 429 needs a slot that an earlier
\* panic of the wrapped handler left taken.
NoRejectionUnlessPanicked ==
    (ctor.fn \in HTTPConstructors /\ Serving /\ ctor.connectionLimit = ctor.limit
        /\ \A v \in Workers : outcome[v] # "panic") =>
        \A w \in Workers : resp[w].status # StatusTooManyRequests

\* C33: when the HTTP set-up returns a configuration error (requestLimit <= 0
\* or connectionLimit < requestLimit) the server object is left unchanged:
\* the handler is not wrapped, the timeouts keep their values and no Limiter
\* is created.
ConfigErrorLeavesServer ==
    /\ []((ctor.fn \in HTTPConstructors
            /\ (ctor.limit <= 0 \/ ctor.connectionLimit < ctor.limit)) =>
            /\ ~srv.wrapped /\ ~srv.listening
            /\ limiter = NoLimiter.limiter
            /\ srv.setUps > 0 =>
                srv.err \in {"requestLimit must be > 0",
                             "connectionLimit must be >= requestLimit"})
    /\ [][(ctor.fn \in HTTPConstructors
            /\ (ctor.limit <= 0 \/ ctor.connectionLimit < ctor.limit)) =>
            /\ srv'.timeouts = srv.timeouts
            /\ srv'.wrapped = srv.wrapped
            /\ srv'.listening = srv.listening /\ srv'.gate = srv.gate
            /\ <<limiter, max, current, mu>>' = <<limiter, max, current, mu>>]_vars

\* A call with connectionLimit < requestLimit has returned its error on a
\* server whose timeouts were both unset.
ConfigErrorLeavesServerWitness ==
    /\ ctor.fn \in HTTPConstructors
    /\ ctor.limit > 0 /\ ctor.connectionLimit < ctor.limit
    /\ srv.setUps > 0
    /\ srv.err = "connectionLimit must be >= requestLimit"
    /\ srv.timeouts = [ReadHeaderTimeout |-> 0, IdleTimeout |-> 0]

\* C34: when the Start of any Limiter returns an error other than ErrLimited,
\* neither wrapper runs the protected handler or a release function: the
\* HTTP middleware answers 500 and the interceptor returns that error as it
\* is.
OtherErrorStopsWrapper ==
    /\ [](\A w \in Workers :
            (ret[w].err \in OtherErrors) =>
                /\ ret[w].end = "nil"
                /\ pc[w] \in {"rejected", "responded"}
                /\ outcome[w] = "none"
                /\ calls[w] = 0
                /\ (pc[w] = "responded" /\ WrappedByHandler) =>
                        /\ resp[w].status = StatusInternalServerError
                        /\ resp[w].body = "Internal Server Error\n"
                /\ (pc[w] = "responded" /\ WrappedByInterceptor) =>
                        resp[w] = [status |-> codesUnknown, body |-> ret[w].err]
                /\ pc[w] = "rejected" => resp[w] = NoResp)
    /\ []((process = "running" /\ \A w \in Workers : pc[w] \in {"idle", "admitted", "rejected"})
            => \A w \in Workers : pc[w] = "rejected" =>
                    \/ WrappedByHandler /\ ENABLED HandlerAfterStart(w)
                    \/ WrappedByInterceptor /\ ENABLED InterceptorAfterStart(w))

\* Both wrappers have answered a Start that failed with an error of the
\* Limiter's own.
OtherErrorStopsWrapperWitness ==
    \E w, v \in Workers :
        /\ ret[w].err \in OtherErrors /\ ret[v].err = "nil"
        /\ pc[w] = "responded" /\ pc[v] = "responded"
        /\ resp[w].status \in {StatusInternalServerError, codesUnknown}
        /\ calls[v] = 1

\* C35: grpclimit.Serve returns an error for every connectionLimit <= 0 and
\* opens no listener and serves nothing; for connectionLimit > 0 it serves on
\* a listener that lets in connectionLimit connections at a time.
ServeChecksConnectionLimit ==
    /\ \A connectionLimit \in (0 - MaxLimit)..(MaxLimit + MaxLimit), listenOK \in BOOLEAN :
        LET s == Serve(connectionLimit, listenOK)
        IN  /\ connectionLimit <= 0 =>
                (s.err \notin {"nil", "listen"} /\ ~s.listening /\ s.gate = 0)
            /\ (connectionLimit > 0 /\ listenOK) =>
                s = [err |-> "nil", listening |-> TRUE, gate |-> connectionLimit]
    /\ (ctor.fn = "NewServerWithInterceptors" /\ ctor.limit > 0) =>
        /\ ctor.connectionLimit <= 0 =>
            /\ srv.err = "connectionLimit must be >= 0"
            /\ ~srv.listening
            /\ sem = 0
            /\ \A w \in Workers : pc[w] = "idle"
        /\ (ctor.connectionLimit > 0 /\ ctor.listenOK) =>
            /\ Serving
            /\ srv.gate = ctor.connectionLimit
            /\ sem <= ctor.connectionLimit
            /\ process = "running" => \A w \in Workers :
                    pc[w] = "idle" => (ENABLED Accept(w) <=> sem < ctor.connectionLimit)

\* Serve(server, addr, 1) serves one connection and holds another back.
ServeChecksConnectionLimitWitness ==
    /\ ctor.fn = "NewServerWithInterceptors"
    /\ ctor.connectionLimit = 1
    /\ sem = 1
    /\ \E w, v \in Workers : pc[w] = "handler" /\ pc[v] = "idle" /\ ~ENABLED Accept(v)

\* The requests between the start() and the end() of the logger.
InProgress == {w \in Workers : pc[w] \in {"make", "check_duration", "sleep", "log_end"}}

\* C37: for concurrentMaxLogger under any interleaving of matched start and
\* end calls, 0 <= current <= max, max never decreases, and max is the
\* largest number of requests that were ever in progress at once.
LoggerTracksPeak ==
    /\ [](/\ 0 <= logger.current /\ logger.current <= logger.max
          /\ logger.current = Cardinality(InProgress)
          /\ ~logger.mu
          /\ \A w \in Workers : pc[w] \in {"panic", "recovered"} => outcome[w] = "panic")
    /\ [][/\ logger'.max >= logger.max
          /\ logger'.max = IF Cardinality(InProgress') > logger.max
                           THEN Cardinality(InProgress') ELSE logger.max]_vars

\* The peak was NumWorkers requests; all but one have ended since.
LoggerTracksPeakWitness ==
    /\ ctor.fn = "sleepyserver"
    /\ logger.max = NumWorkers
    /\ logger.current = 1
    /\ \E w \in Workers : pc[w] = "released"

\* The requests in the allocate-and-sleep phase of sleepImplementation.
InSleepPhase == {w \in Workers : pc[w] \in {"log_start", "make", "check_duration", "sleep", "log_end"}}

\* C36: in the limit server's sleepImplementation admission comes before any
\* allocation and the slot is released on every way out (the invalid-duration
\* return included), so the requests in the allocate-and-sleep phase never
\* exceed concurrentRequests, and a rejected request is reported as
\* ErrLimited (HTTP 429, RPC ResourceExhausted).
SleepWithinLimit ==
    (ctor.fn = "limitserver" /\ ctor.limit > 0) =>
        /\ limiter = "syncLimiter" /\ max = ctor.limit
        /\ Cardinality(InSleepPhase) <= ctor.limit
        /\ \A w \in Workers :
            /\ pc[w] \in {"log_start", "make", "check_duration", "sleep", "log_end", "log_ended"} =>
                    (ret[w] = Admitted /\ calls[w] = 0)
            /\ (pc[w] \in {"released", "responded", "recovered"} /\ ret[w] = Admitted) =>
                    calls[w] = 1
            /\ ret[w] = Rejected =>
                    (outcome[w] = "none" /\ calls[w] = 0 /\ pc[w] \notin {"panic", "recovered"})
            /\ (pc[w] = "responded" /\ ret[w] = Rejected) =>
                    resp[w] = IF via[w] = "http"
                              THEN [status |-> StatusTooManyRequests,
                                    body |-> ErrLimited \o "\n"]
                              ELSE [status |-> codesResourceExhausted, body |-> ErrLimited]
        /\ (\A w \in Workers : pc[w] \in {"idle", "responded", "recovered"}) => current = 0

\* The limit is reached by a request on its way out with an invalid
\* duration, its slot not yet released; another request was rejected.
SleepWithinLimitWitness ==
    /\ ctor.fn = "limitserver" /\ ctor.limit = 1
    /\ Cardinality(InSleepPhase) = 1
    /\ \E w, u \in Workers :
        /\ pc[w] = "log_end" /\ outcome[w] = "error"
        /\ pc[u] = "responded" /\ ret[u] = Rejected

\* A request that ended with an invalid duration and one whose make
\* panicked have both released their slots.
SleepReleasedWitness ==
    /\ ctor.fn = "limitserver" /\ ctor.limit = 1
    /\ current = 0
    /\ \E w, v \in Workers :
        /\ pc[w] = "responded" /\ outcome[w] = "error"
        /\ pc[v] = "recovered" /\ outcome[v] = "panic"

\* The goroutines main started.
Goroutines == {w \in Workers : pc[w] # "idle"}

\* C38 as stated, for every request of the load client: a request the
\* server rejected is retried, so no rejection ends the client, neither in a
\* goroutine nor in main.
RejectedIsRetried ==
    /\ client.mainErr = errRetry => client.main # "panic" /\ process = "running"
    /\ \A w \in Workers : pc[w] = "panic" => client.err[w] # errRetry

\* C38: in the load client a request of a client goroutine that the server
\* rejected (429 with a body that was drained and closed, or
\* ResourceExhausted) is retried and not counted, requestCount counts only
\* the sends that succeeded; after done is closed every goroutine sends its
\* total exactly once and main receives exactly concurrent totals before it
\* closes the channel, so no goroutine sends on a closed channel.  The
\* request main sends itself with -shareGRPC is not retried: any error of it
\* ends the client before a goroutine exists.
ClientCountsAndCollects ==
    /\ [][\A w \in Workers :
            /\ client'.requestCount[w] # client.requestCount[w] =>
                /\ client'.requestCount[w] = client.requestCount[w] + 1
                /\ client.err[w] = "nil"
                /\ resp[w].status = IF via[w] = "http" THEN StatusOK ELSE codesOK
                /\ resp[w].body = ""
            /\ (pc[w] = "check_err" /\ resp[w].body = ""
                    /\ resp[w].status = (IF via[w] = "http" THEN StatusTooManyRequests
                                         ELSE codesResourceExhausted)) =>
                /\ client.err[w] = errRetry
                /\ pc'[w] \in {"check_err", "backoff"}
                /\ client'.requestCount[w] = client.requestCount[w]
            /\ pc[w] = "backoff" => pc'[w] \in {"backoff", "select"}
            /\ client'.sent[w] # client.sent[w] => client.done = "closed"]_vars
    /\ [](/\ \A w \in Workers :
                /\ client.sent[w] <= 1
                /\ client.sent[w] = 1 <=> pc[w] = "exited"
                /\ pc[w] = "panic" => client.err[w] \notin {"nil", errRetry, DeadlineExceeded}
          /\ client.totalRequestsChan = "closed" =>
                /\ client.i = Cardinality(Goroutines)
                /\ client.concurrent > 0 => client.i = client.concurrent
                /\ \A w \in Goroutines : client.sent[w] = 1
          /\ client.mainErr \notin {"unset", "nil"} =>
                /\ client.main = "panic" /\ process = "crashed"
                /\ Goroutines = {})
    /\ (client.done = "closed") ~>
            (client.totalRequestsChan = "closed" \/ process = "crashed")

\* done is closed and one goroutine has sent its total of counted requests,
\* while the other, which counted one request, waits to retry a request the
\* server rejected with ResourceExhausted.
ClientCountsAndCollectsWitness ==
    /\ client.concurrent = MaxGoroutines
    /\ client.done = "closed"
    /\ \E w, v \in Workers :
        /\ client.requestCount[w] = MaxSends /\ client.sent[w] = 1
        /\ client.totalRequests = MaxSends
        /\ client.requestCount[v] = 1 /\ pc[v] = "backoff"
        /\ via[v] = "grpc" /\ client.connected[v]
        /\ client.err[v] = errRetry

====
